---- MODULE Spec2Model ----
(***************************************************************************)
(* Model of yt_subs_summarizer.py.                                         *)
(*                                                                         *)
(* Part 1: the resilient call executor, _execute_with_backoff, and the     *)
(* process-wide quota latch QUOTA_EXHAUSTED.  One executor call is a       *)
(* sequence of steps: Call (entry, latch check, loop set-up), then one     *)
(* Execute* step per loop iteration (request.execute() and the handler of  *)
(* what it returned or raised, up to the next iteration or the return),    *)
(* then Return (the caller takes the result and goes on).                  *)
(*                                                                         *)
(* Part 2: the candidate acquisition strategies and main's wrapper around  *)
(* them (SpecAcq).  Part 3: exclude_shorts (SpecShorts).  Part 4: main's   *)
(* dedup filter, sort and cap (SpecFilter).  Part 5: the state store,      *)
(* load_state and save_state (SpecState).  Part 6: the transcript          *)
(* resolution chain, fetch_transcript_any_lang (SpecChain).  Part 7: whole *)
(* runs of main over one state file and one remote data set (SpecRun).     *)
(* Part 8: the playlist mode of main and mark_playlist_existing.py, with   *)
(* resolve_playlist_id and list_videos_from_playlist_id (SpecPlaylist).    *)
(* Each part is a specification of its own over the part's                 *)
(* variable; the other parts' variables stay as Init left them.  Parts 2   *)
(* to 4 call the executor through ExecutorResults, the set of ways one     *)
(* executor call of part 1 can end.                                        *)
(***************************************************************************)
EXTENDS Integers, Sequences, FiniteSets, TLC

\* Largest max_attempts a caller passes (the callers in the source all use
\* the default, 5; the bound lets the 30-second cap be reached).
MaxAttempts == 7

\* ---------------------------------------------------------------- inputs

\* Python's None.
None == "None"

\* First delay of the backoff schedule.
InitialDelay == 1

\* Cap of the backoff schedule.
MaxDelay == 30

\* Attempt from which a non-HTTP exception is re-raised.
NonHttpAttempts == 3

\* HTTP statuses an HttpError may carry.
Statuses == {400, 403, 404, 429, 500, 502, 503, 504}

\* Values of error.errors[0].reason in an HttpError body ("backendError"
\* stands for every reason the executor does not name).
Reasons ==
    {"quotaExceeded", "rateLimitExceeded", "userRateLimitExceeded",
     "playlistNotFound", "playlistItemsNotAccessible", "forbidden",
     "channelClosed", "channelSuspended", "channelDisabled", "backendError"}

\* Bodies of an HttpError: not JSON at all, or JSON whose error.errors list
\* holds zero, one or two entries, each with a reason (two entries show
\* that only the first one counts).
Bodies ==
    {<<"unparsable">>}
        \cup {<<"json", <<>>>>}
        \cup {<<"json", <<r>>>> : r \in Reasons}
        \cup {<<"json", <<r, "quotaExceeded">>>> : r \in {"backendError", "forbidden"}}
        \cup {<<"json", <<"quotaExceeded", "backendError">>>>}

\* The HttpError values request.execute() may raise.
HttpErrors == [status : Statuses, body : Bodies]

\* Labels (the `what` argument) as token sequences, as the call sites build
\* them: "subscriptions.list", f"search.list:{title}",
\* f"playlistItems.list:{title}", "playlists.get:id".
Labels ==
    {<<"subscriptions.list">>,
     <<"search.list", ":", "T1">>,
     <<"playlistItems.list", ":", "T1">>,
     <<"playlists.get", ":", "id">>}

\* str.startswith on token sequences.
StartsWith(s, prefix) ==
    /\ Len(s) >= Len(prefix)
    /\ SubSeq(s, 1, Len(prefix)) = prefix

\* The prefix the executor tests `what` against.
PlaylistItemsPrefix == <<"playlistItems.list", ":">>

\* ---------------------------------------------------------------- state

VARIABLES
    QUOTA_EXHAUSTED,  \* the module-level latch
    pc,               \* "idle" | "loop" | "returned": position of the executor
    what,             \* label of the call being executed
    max_attempts,     \* its max_attempts argument
    attempt,          \* loop variable of the for loop
    delay,            \* local `delay`
    result,           \* "pending" | "response" | "null" | "raised"
    calls,            \* request.execute() invocations of this executor call
    slept,            \* delays passed to sleep() in this executor call, in order
    last,             \* what the latest request.execute() did
    n503,             \* invocations of this call that failed with HTTP 503
    nExc,             \* invocations of this call that raised a non-HTTP exception
    acq,              \* main's candidate acquisition and the strategy it runs
    shorts,           \* one call of exclude_shorts
    flt,              \* main's dedup filter, sort and cap
    store,            \* the state file, its loads and saves
    chain,            \* one call of fetch_transcript_any_lang
    run,              \* successive runs of main
    pl                \* runs of main in playlist mode and of mark_playlist_existing.py

\* The variables of one executor call.
execVars == <<pc, what, max_attempts, attempt, delay, result,
              calls, slept, last, n503, nExc>>

\* The variables of the parts built on the executor.
runVars == <<acq, shorts, flt, store, chain, run, pl>>

vars == <<QUOTA_EXHAUSTED, pc, what, max_attempts, attempt, delay, result,
          calls, slept, last, n503, nExc, acq, shorts, flt, store, chain,
          run, pl>>

\* A part that is not running.
Parked == [phase |-> "parked"]

NoOutcome == [kind |-> "none", status |-> 0, reason |-> None]

\* ---------------------------------------------------------------- helpers

\* _http_error_reason: (status, reason of the first listed error or None).
_http_error_reason(err) ==
    <<err.status,
      IF err.body[1] = "json" /\ Len(err.body[2]) > 0
      THEN err.body[2][1]
      ELSE None>>

\* _should_retry without the 429 of its status list.
_should_retry_No429(status, reason) ==
    \/ status \in {500, 502, 503, 504}
    \/ /\ status = 403
       /\ reason \in {"rateLimitExceeded", "userRateLimitExceeded", "quotaExceeded"}

\* _should_retry that takes every 403 for a rate limit.
_should_retry_Any403(status, reason) ==
    \/ status \in {500, 502, 503, 504, 429}
    \/ status = 403

\* _should_retry.
_should_retry(status, reason) ==
    \/ status \in {500, 502, 503, 504, 429}
    \/ /\ status = 403
       /\ reason \in {"rateLimitExceeded", "userRateLimitExceeded", "quotaExceeded"}

\* The quota test on the wrong status.
IsQuotaExceeded_429(status, reason) ==
    status = 429 /\ reason = "quotaExceeded"

\* The quota test without its status.
IsQuotaExceeded_AnyStatus(status, reason) ==
    reason = "quotaExceeded"

\* The quota-exhaustion test of the HttpError handler.
IsQuotaExceeded(status, reason) ==
    status = 403 /\ reason = "quotaExceeded"

\* The skip test without the 403 of its status list.
IsNotFound_Only404(status, reason, w) ==
    /\ status = 404
    /\ \/ reason \in {"playlistNotFound", "playlistItemsNotAccessible",
                      "forbidden", "channelClosed", "channelSuspended",
                      "channelDisabled"}
       \/ StartsWith(w, PlaylistItemsPrefix)

\* The skip test without its label clause.
IsNotFound_NoLabel(status, reason, w) ==
    /\ status \in {403, 404}
    /\ reason \in {"playlistNotFound", "playlistItemsNotAccessible",
                   "forbidden", "channelClosed", "channelSuspended",
                   "channelDisabled"}

\* The skip ("not found") test of the HttpError handler.
IsNotFound(status, reason, w) ==
    /\ status \in {403, 404}
    /\ \/ reason \in {"playlistNotFound", "playlistItemsNotAccessible",
                      "forbidden", "channelClosed", "channelSuspended",
                      "channelDisabled"}
       \/ StartsWith(w, PlaylistItemsPrefix)

\* The doubling without its cap.
NextDelay_NoCap(d) == d * 2

\* delay = min(delay * 2, 30.0)
NextDelay(d) == IF d * 2 < MaxDelay THEN d * 2 ELSE MaxDelay

\* min on integers.
Min2(a, b) == IF a < b THEN a ELSE b

\* `if attempt >= 3: raise` of the generic exception handler.
NonHttpBudgetSpent(a) == a >= NonHttpAttempts

\* ---------------------------------------------------------------- steps

Init ==
    /\ QUOTA_EXHAUSTED = FALSE
    /\ pc = "idle"
    /\ what = <<>>
    /\ max_attempts = 0
    /\ attempt = 0
    /\ delay = 0
    /\ result = "pending"
    /\ calls = 0
    /\ slept = <<>>
    /\ last = NoOutcome
    /\ n503 = 0
    /\ nExc = 0
    /\ acq = Parked
    /\ shorts = Parked
    /\ flt = Parked
    /\ store = Parked
    /\ chain = Parked
    /\ run = Parked
    /\ pl = Parked

\* The entry without the latch check.
Call_NoLatchCheck(w, m) ==
    /\ pc = "idle"
    /\ what' = w
    /\ max_attempts' = m
    /\ pc' = "loop"
    /\ result' = "pending"
    /\ attempt' = 1
    /\ delay' = InitialDelay
    /\ UNCHANGED <<QUOTA_EXHAUSTED, calls, slept, last, n503, nExc>>
    /\ UNCHANGED runVars

\* Entry of _execute_with_backoff(request, w, m): the latch check, then the
\* set-up of the loop.
Call(w, m) ==
    /\ pc = "idle"
    /\ what' = w
    /\ max_attempts' = m
    /\ IF QUOTA_EXHAUSTED
       THEN /\ pc' = "returned"
            /\ result' = "null"
            /\ UNCHANGED <<attempt, delay>>
       ELSE /\ pc' = "loop"
            /\ result' = "pending"
            /\ attempt' = 1
            /\ delay' = InitialDelay
    /\ UNCHANGED <<QUOTA_EXHAUSTED, calls, slept, last, n503, nExc>>
    /\ UNCHANGED runVars

\* The end of a loop iteration that did not return or raise: sleep(delay),
\* double the delay, then the next iteration or, after the last one, the
\* `return None` that follows the loop.
SleepAndContinue ==
    /\ slept' = Append(slept, delay)
    /\ delay' = NextDelay(delay)
    /\ IF attempt < max_attempts
       THEN /\ attempt' = attempt + 1
            /\ pc' = "loop"
            /\ result' = "pending"
       ELSE /\ attempt' = attempt
            /\ pc' = "returned"
            /\ result' = "null"

\* request.execute() returns a response.
ExecuteOk ==
    /\ pc = "loop"
    /\ calls' = calls + 1
    /\ last' = [kind |-> "ok", status |-> 200, reason |-> None]
    /\ pc' = "returned"
    /\ result' = "response"
    /\ UNCHANGED <<QUOTA_EXHAUSTED, what, max_attempts, attempt, delay,
                   slept, n503, nExc>>
    /\ UNCHANGED runVars

\* request.execute() raises HttpError err.
ExecuteHttpError(err) ==
    LET sr == _http_error_reason(err)
        status == sr[1]
        reason == sr[2]
    IN  /\ pc = "loop"
        /\ calls' = calls + 1
        /\ last' = [kind |-> "http", status |-> status, reason |-> reason]
        /\ n503' = IF status = 503 THEN n503 + 1 ELSE n503
        /\ UNCHANGED <<what, max_attempts, nExc>>
        /\ UNCHANGED runVars
        /\ IF IsQuotaExceeded(status, reason)
           THEN /\ QUOTA_EXHAUSTED' = TRUE
                /\ pc' = "returned"
                /\ result' = "null"
                /\ UNCHANGED <<attempt, delay, slept>>
           ELSE IF IsNotFound(status, reason, what)
           THEN /\ pc' = "returned"
                /\ result' = "null"
                /\ UNCHANGED <<QUOTA_EXHAUSTED, attempt, delay, slept>>
           ELSE IF ~_should_retry(status, reason)
           THEN /\ pc' = "returned"
                /\ result' = "raised"
                /\ UNCHANGED <<QUOTA_EXHAUSTED, attempt, delay, slept>>
           ELSE /\ SleepAndContinue
                /\ UNCHANGED QUOTA_EXHAUSTED

\* request.execute() raises an exception that is not an HttpError.
ExecuteException ==
    /\ pc = "loop"
    /\ calls' = calls + 1
    /\ last' = [kind |-> "exc", status |-> 0, reason |-> None]
    /\ nExc' = nExc + 1
    /\ UNCHANGED <<QUOTA_EXHAUSTED, what, max_attempts, n503>>
    /\ UNCHANGED runVars
    /\ IF NonHttpBudgetSpent(attempt)
       THEN /\ pc' = "returned"
            /\ result' = "raised"
            /\ UNCHANGED <<attempt, delay, slept>>
       ELSE SleepAndContinue

\* The caller takes the result (a response, null, or an exception it
\* handles) and the run goes on to its next remote call.
Return ==
    /\ pc = "returned"
    /\ pc' = "idle"
    /\ what' = <<>>
    /\ max_attempts' = 0
    /\ attempt' = 0
    /\ delay' = 0
    /\ result' = "pending"
    /\ calls' = 0
    /\ slept' = <<>>
    /\ last' = NoOutcome
    /\ n503' = 0
    /\ nExc' = 0
    /\ UNCHANGED QUOTA_EXHAUSTED
    /\ UNCHANGED runVars

Next ==
    \/ \E w \in Labels, m \in 1..MaxAttempts : Call(w, m)
    \/ ExecuteOk
    \/ \E err \in HttpErrors : ExecuteHttpError(err)
    \/ ExecuteException
    \/ Return

Spec == Init /\ [][Next]_vars

TypeOK ==
    /\ QUOTA_EXHAUSTED \in BOOLEAN
    /\ pc \in {"idle", "loop", "returned"}
    /\ result \in {"pending", "response", "null", "raised"}
    /\ calls \in 0..MaxAttempts
    /\ attempt \in 0..MaxAttempts
    /\ delay \in 0..MaxDelay
    /\ n503 \in 0..calls
    /\ nExc \in 0..calls

\* ---------------------------------------------------------------- claims

\* An HTTP failure was just observed by this step.
HttpFailureStep == calls' = calls + 1 /\ last'.kind = "http"

\* C1: an attempt that fails with HTTP 403 / quotaExceeded sets the latch and
\* makes the executor return null in that same step: no sleep, nothing
\* raised, no further invocation, for every label and every attempt.
C1_QuotaExceededLatchesAndReturnsNull ==
    [][(HttpFailureStep /\ last'.status = 403 /\ last'.reason = "quotaExceeded")
        => /\ QUOTA_EXHAUSTED'
           /\ pc' = "returned"
           /\ result' = "null"
           /\ slept' = slept
      ]_vars

\* C1 witness: a quota failure on a later attempt of a per-item listing call.
C1_Witness ==
    /\ pc = "returned"
    /\ last.kind = "http" /\ last.status = 403 /\ last.reason = "quotaExceeded"
    /\ StartsWith(what, PlaylistItemsPrefix)
    /\ calls = 3
    /\ QUOTA_EXHAUSTED
    /\ result = "null"

\* C2: when the latch is set at entry, the executor returns null with zero
\* invocations of the remote call, for every label and every max_attempts.
C2_LatchedEntryMakesNoCall ==
    [][(pc = "idle" /\ pc' # "idle" /\ QUOTA_EXHAUSTED)
        => /\ pc' = "returned"
           /\ result' = "null"
           /\ calls' = 0
           /\ slept' = <<>>
      ]_vars

\* C2 witness: an executor call entered with the latch set has returned.
C2_Witness ==
    /\ pc = "returned"
    /\ QUOTA_EXHAUSTED
    /\ calls = 0
    /\ result = "null"
    /\ max_attempts = 5

\* C3: the latch starts false, only ever goes from false to true, and does so
\* only in a step that observes an HTTP 403 / quotaExceeded failure.
C3_LatchWriteOnce ==
    /\ ~QUOTA_EXHAUSTED
    /\ [][(QUOTA_EXHAUSTED' # QUOTA_EXHAUSTED)
           => /\ ~QUOTA_EXHAUSTED
              /\ QUOTA_EXHAUSTED'
              /\ HttpFailureStep
              /\ last'.status = 403
              /\ last'.reason = "quotaExceeded"
         ]_vars

\* C3 witness: the latch is still set in a later executor call and after it.
C3_Witness ==
    /\ QUOTA_EXHAUSTED
    /\ pc = "idle"

\* C4: when all max_attempts attempts fail with a retryable HTTP error, the
\* executor re-raises the last error instead of returning null or a response.
C4_ExhaustedRetriesRaise ==
    (/\ pc = "returned"
     /\ calls = max_attempts
     /\ calls >= 1
     /\ nExc = 0
     /\ last.kind = "http"
     /\ last.status \in {500, 502, 503, 504, 429})
        => result = "raised"

\* C5: a call that always fails with HTTP 503 is invoked exactly
\* max_attempts times, and the delay slept after the k-th failure is
\* min(2^(k-1), 30).
C5_BackoffSchedule ==
    (calls >= 1 /\ n503 = calls)
        => /\ Len(slept) = calls
           /\ \A k \in 1..Len(slept) : slept[k] = Min2(2 ^ (k - 1), 30)
           /\ \A k \in 2..Len(slept) : slept[k - 1] <= slept[k]
           /\ pc = "loop" => calls < max_attempts
           /\ pc = "returned" => calls = max_attempts

\* C5 witness: seven 503 failures, the last two delays at the cap.
C5_Witness ==
    /\ pc = "returned"
    /\ n503 = calls
    /\ calls = 7
    /\ max_attempts = 7
    /\ slept = <<1, 2, 4, 8, 16, 30, 30>>

\* The failures C6 calls retryable.
C6_Retryable(o) ==
    \/ o.status \in {500, 502, 503, 504, 429}
    \/ o.status = 403 /\ o.reason \in {"rateLimitExceeded", "userRateLimitExceeded"}

\* The step retries: it sleeps the current delay and moves to the next attempt.
RetriedStep ==
    /\ pc' = "loop"
    /\ result' = "pending"
    /\ slept' = Append(slept, delay)
    /\ attempt' = attempt + 1

\* The step returns null at once: no sleep, nothing raised.
ReturnedNullStep ==
    /\ pc' = "returned"
    /\ result' = "null"
    /\ slept' = slept

\* C6 as stated: for every label, a failure with 500, 502, 503, 504, 429 or
\* with 403 and a rate-limit reason is retried while attempts remain.
C6_Original ==
    [][(HttpFailureStep /\ C6_Retryable(last') /\ attempt < max_attempts)
        => RetriedStep
      ]_vars

\* C6 amended: a failure with 500, 502, 503, 504 or 429 is retried while
\* attempts remain for every label; a 403 with a rate-limit reason is retried
\* while attempts remain unless the label starts with "playlistItems.list:",
\* and with such a label it makes the executor return null at once.
C6_Amended ==
    [][(HttpFailureStep /\ C6_Retryable(last'))
        => IF last'.status = 403 /\ StartsWith(what, <<"playlistItems.list", ":">>)
           THEN ReturnedNullStep /\ QUOTA_EXHAUSTED' = QUOTA_EXHAUSTED
           ELSE attempt < max_attempts => RetriedStep
      ]_vars

\* C6 witness: a 403 rate-limit failure of a search call was retried and the
\* call is about to be invoked a third time.
C6_Witness ==
    /\ pc = "loop"
    /\ last.kind = "http" /\ last.status = 403 /\ last.reason = "userRateLimitExceeded"
    /\ ~StartsWith(what, PlaylistItemsPrefix)
    /\ calls = 2
    /\ attempt = 3
    /\ slept = <<1, 2>>

\* C7: a 403 or 404 with one of the six not-found reasons makes the executor
\* return null in that step: no retry, no exception, latch unchanged.
C7_NotFoundReturnsNull ==
    [][(/\ HttpFailureStep
        /\ last'.status \in {403, 404}
        /\ last'.reason \in {"playlistNotFound", "playlistItemsNotAccessible",
                             "forbidden", "channelClosed", "channelSuspended",
                             "channelDisabled"})
        => ReturnedNullStep /\ QUOTA_EXHAUSTED' = QUOTA_EXHAUSTED
      ]_vars

\* C7 witness: a 403 channelSuspended on a call that is no per-item listing.
C7_Witness ==
    /\ pc = "returned"
    /\ last.kind = "http" /\ last.status = 403 /\ last.reason = "channelSuspended"
    /\ ~StartsWith(what, PlaylistItemsPrefix)
    /\ result = "null"
    /\ ~QUOTA_EXHAUSTED

\* C8 as stated: every failure of a call labelled "playlistItems.list:..."
\* other than quota exhaustion makes the executor return null at once,
\* whatever its status and reason.
C8_Original ==
    [][(/\ HttpFailureStep
        /\ StartsWith(what, <<"playlistItems.list", ":">>)
        /\ ~(last'.status = 403 /\ last'.reason = "quotaExceeded"))
        => ReturnedNullStep
      ]_vars

\* C8 amended: every failure with HTTP 403 or 404 of a call labelled
\* "playlistItems.list:...", other than 403 / quotaExceeded, makes the
\* executor return null at once, whatever its reason.
C8_Amended ==
    [][(/\ HttpFailureStep
        /\ StartsWith(what, <<"playlistItems.list", ":">>)
        /\ last'.status \in {403, 404}
        /\ ~(last'.status = 403 /\ last'.reason = "quotaExceeded"))
        => ReturnedNullStep /\ QUOTA_EXHAUSTED' = QUOTA_EXHAUSTED
      ]_vars

\* C8 witness: a per-item listing call failed with a 404 whose reason the
\* executor does not name, and returned null.
C8_Witness ==
    /\ pc = "returned"
    /\ StartsWith(what, PlaylistItemsPrefix)
    /\ last.kind = "http" /\ last.status = 404 /\ last.reason = "backendError"
    /\ result = "null"

\* The classes of C9, as the contract words them.
C9_Quota(o) == o.status = 403 /\ o.reason = "quotaExceeded"

C9_NotFound(o, w) ==
    /\ o.status \in {403, 404}
    /\ \/ o.reason \in {"playlistNotFound", "playlistItemsNotAccessible",
                        "forbidden", "channelClosed", "channelSuspended",
                        "channelDisabled"}
       \/ StartsWith(w, <<"playlistItems.list", ":">>)

C9_Retryable(o) ==
    \/ o.status \in {500, 502, 503, 504, 429}
    \/ o.status = 403 /\ o.reason \in {"rateLimitExceeded", "userRateLimitExceeded"}

\* C9: an HTTP failure that is neither quota-exhausted, nor not-found, nor
\* retryable is re-raised in the step it occurs in: no further invocation,
\* no null, latch unchanged.
C9_OtherFailureIsRaised ==
    [][(/\ HttpFailureStep
        /\ ~C9_Quota(last')
        /\ ~C9_NotFound(last', what)
        /\ ~C9_Retryable(last'))
        => /\ pc' = "returned"
           /\ result' = "raised"
           /\ slept' = slept
           /\ QUOTA_EXHAUSTED' = QUOTA_EXHAUSTED
      ]_vars

\* C9 witness: a 403 with an unnamed reason on a search call, on the second
\* attempt.
C9_Witness ==
    /\ pc = "returned"
    /\ result = "raised"
    /\ last.kind = "http" /\ last.status = 403 /\ last.reason = "backendError"
    /\ ~StartsWith(what, PlaylistItemsPrefix)
    /\ calls = 2

\* C10: a call that always raises a non-HTTP exception is invoked exactly 3
\* times whatever max_attempts is, with delays 1 then 2, and the third
\* exception is re-raised.
C10_NonHttpThreeAttempts ==
    (pc = "returned" /\ calls >= 1 /\ nExc = calls)
        => /\ calls = 3
           /\ slept = <<1, 2>>
           /\ result = "raised"

\* ================================================================ part 2
\* Candidate acquisition: get_recent_subscription_videos_efficient,
\* iter_recent_from_uploads and the try/except main wraps them in.

\* Largest number of subscriptions the sample response lists (the request
\* asks for 20; one more shows the slice channels[:20]).
MaxSubs == 21

\* Largest max_videos argument of the sampled-search strategy.
MaxVideosArg == 3

\* Largest number of upload playlists get_subscribed_upload_playlists yields.
MaxUploads == 2

\* Largest per_channel_limit.
MaxChannelLimit == 2

\* Largest number of items in one search or listing response.
MaxItems == 2

\* Publish times are days 1..MaxTime; the run happens on day MaxTime.
MaxTime == 3

\* The slice channels[:20].
SampleLimit == 20

VideoIds == {"v1", "v2"}

\* The ways one call of _execute_with_backoff can end, as (result, latch
\* afterwards), given the latch q at entry: with the latch set, null and no
\* request; otherwise a response, null with the latch set (quota), null with
\* the latch clear (not found, or the loop ran out), or a raised exception.
ExecutorResults(q) ==
    IF q
    THEN {[res |-> "null", latch |-> TRUE]}
    ELSE {[res |-> "response", latch |-> FALSE],
          [res |-> "null", latch |-> TRUE],
          [res |-> "null", latch |-> FALSE],
          [res |-> "raised", latch |-> FALSE]}

\* ExecutorResults covers what part 1 does (checked under Spec): a call that
\* returned with no invocation was entered with the latch set.
ExecutorResultsSound ==
    pc = "returned"
        => [res |-> result, latch |-> QUOTA_EXHAUSTED] \in ExecutorResults(calls = 0)

\* Items of a search or listing response.  shape "ok": every key the
\* strategy reads is there; "nokey": a key of the item is missing; "nodate":
\* contentDetails.videoPublishedAt is missing or does not parse.
RawItems ==
    [shape : {"ok"}, videoId : VideoIds, publishedAt : 1..MaxTime]
        \cup [shape : {"nokey", "nodate"}, videoId : {"v1"}, publishedAt : {MaxTime}]

\* The item lists of the listing responses, at most MaxItems long.
ItemLists == UNION {[1..n -> RawItems] : n \in 0..MaxItems}

\* The item lists of the search responses: the service applies
\* publishedAfter and the strategy never reads the date of an item, so one
\* date stands for all.
SearchItemLists ==
    UNION {[1..n -> {it \in RawItems : it.publishedAt = MaxTime /\ it.shape # "nodate"}]
             : n \in 0..MaxItems}

\* Sizes of the subscription sample: a few, the slice limit, and past it.
SampleSizes == (0..2) \cup (SampleLimit..MaxSubs)

\* The dict the strategies append for a well-formed item.
Candidate(it) == [videoId |-> it.videoId, publishedAt |-> it.publishedAt]

\* cutoff = now - timedelta(days) if days > 0, else None: <<t>> or <<>>.
Cutoff(days) == IF days > 0 THEN <<MaxTime - days>> ELSE <<>>

\* The item loop of the sampled-search strategy without its length test.
RECURSIVE EffTake_NoCap(_, _, _)
EffTake_NoCap(videos, items, max_videos) ==
    IF items = <<>>
    THEN videos
    ELSE IF Head(items).shape # "ok"
    THEN EffTake_NoCap(videos, Tail(items), max_videos)
    ELSE EffTake_NoCap(Append(videos, Candidate(Head(items))), Tail(items), max_videos)

\* The item loop of get_recent_subscription_videos_efficient: stop once
\* len(videos) >= max_videos, skip an item that raises KeyError.
RECURSIVE EffTake(_, _, _)
EffTake(videos, items, max_videos) ==
    IF items = <<>> \/ Len(videos) >= max_videos
    THEN videos
    ELSE IF Head(items).shape # "ok"
    THEN EffTake(videos, Tail(items), max_videos)
    ELSE EffTake(Append(videos, Candidate(Head(items))), Tail(items), max_videos)

\* The item loop of iter_recent_from_uploads: skip an item whose date does
\* not parse, skip an item published before the cutoff, skip an item that
\* raises while the dict is built, append, count, stop at the cap.
RECURSIVE UploadsTake(_, _, _, _, _)
UploadsTake(videos, got, items, cutoff, per_channel_limit) ==
    IF items = <<>>
    THEN [videos |-> videos, got |-> got]
    ELSE LET it == Head(items)
             rest == Tail(items)
         IN  IF it.shape = "nodate"
             THEN UploadsTake(videos, got, rest, cutoff, per_channel_limit)
             ELSE IF cutoff # <<>> /\ it.publishedAt < cutoff[1]
             THEN UploadsTake(videos, got, rest, cutoff, per_channel_limit)
             ELSE IF it.shape = "nokey"
             THEN UploadsTake(videos, got, rest, cutoff, per_channel_limit)
             ELSE IF got + 1 >= per_channel_limit
             THEN [videos |-> Append(videos, Candidate(it)), got |-> got + 1]
             ELSE UploadsTake(Append(videos, Candidate(it)), got + 1, rest,
                              cutoff, per_channel_limit)

\* No snapshot taken: the latch was not set during the strategy.
NoSnapshot == [taken |-> FALSE, videos |-> <<>>]

AcqStart ==
    [phase |-> "start", strategy |-> "none", max_videos |-> 0,
     per_channel_limit |-> 0, cutoff |-> <<>>, sources |-> 0, idx |-> 0,
     videos |-> <<>>, issued |-> <<>>, gots |-> <<>>, atLatch |-> NoSnapshot,
     candidates |-> <<>>]

InitAcq ==
    /\ QUOTA_EXHAUSTED = FALSE
    /\ pc = "idle"
    /\ what = <<>>
    /\ max_attempts = 0
    /\ attempt = 0
    /\ delay = 0
    /\ result = "pending"
    /\ calls = 0
    /\ slept = <<>>
    /\ last = NoOutcome
    /\ n503 = 0
    /\ nExc = 0
    /\ acq = AcqStart
    /\ shorts = Parked
    /\ flt = Parked
    /\ store = Parked
    /\ chain = Parked
    /\ run = Parked
    /\ pl = Parked

\* The videos collected when the latch goes from clear to set.
SnapshotAfter(a, q, q2, videos) ==
    IF ~q /\ q2 /\ ~a.atLatch.taken
    THEN [taken |-> TRUE, videos |-> videos]
    ELSE a.atLatch

\* main's `except Exception` around a strategy, the latch being q: with the
\* latch clear the run ends (sys.exit(1), or the exception is re-raised),
\* with the latch set main goes on with no candidates.
MainOnException(a, q) ==
    IF q
    THEN [a EXCEPT !.phase = "filter", !.candidates = <<>>]
    ELSE [a EXCEPT !.phase = "exit"]

\* main calls get_recent_subscription_videos_efficient(max_videos = mv): the
\* strategy asks for the subscription sample; no response makes it return
\* []; the response lists n well-formed subscriptions.
EffSample(mv, out, n) ==
    /\ acq.phase = "start"
    /\ out \in ExecutorResults(QUOTA_EXHAUSTED)
    /\ QUOTA_EXHAUSTED' = out.latch
    /\ LET a == [acq EXCEPT !.strategy = "efficient", !.max_videos = mv,
                            !.atLatch = SnapshotAfter(acq, QUOTA_EXHAUSTED, out.latch, <<>>)]
       IN  acq' = IF out.res = "raised"
                  THEN MainOnException(a, out.latch)
                  ELSE IF out.res = "null"
                  THEN [a EXCEPT !.phase = "returned"]
                  ELSE [a EXCEPT !.phase = "eff_loop", !.sources = n, !.idx = 1]
    /\ UNCHANGED <<execVars, shorts, flt, store, chain, run, pl>>

\* One iteration of `for channel in channels[:20]` that passes the length
\* test: the search call for the channel, then the item loop.
EffSearch(out, items) ==
    /\ acq.phase = "eff_loop"
    /\ acq.idx <= Min2(acq.sources, SampleLimit)
    /\ Len(acq.videos) < acq.max_videos
    /\ out \in ExecutorResults(QUOTA_EXHAUSTED)
    /\ QUOTA_EXHAUSTED' = out.latch
    /\ LET a == [acq EXCEPT !.issued = Append(@, acq.idx),
                            !.atLatch = SnapshotAfter(acq, QUOTA_EXHAUSTED, out.latch, acq.videos)]
       IN  acq' = IF out.res = "raised"
                  THEN MainOnException(a, out.latch)
                  ELSE IF out.res = "null"
                  THEN [a EXCEPT !.idx = @ + 1]
                  ELSE [a EXCEPT !.idx = @ + 1,
                                 !.videos = EffTake(@, items, acq.max_videos)]
    /\ UNCHANGED <<execVars, shorts, flt, store, chain, run, pl>>

\* The loop over channels[:20] ends, by exhaustion or by the break of the
\* length test, and the strategy returns videos.
EffReturn ==
    /\ acq.phase = "eff_loop"
    /\ \/ acq.idx > Min2(acq.sources, SampleLimit)
       \/ Len(acq.videos) >= acq.max_videos
    /\ acq' = [acq EXCEPT !.phase = "returned"]
    /\ UNCHANGED <<QUOTA_EXHAUSTED, execVars, shorts, flt, store, chain, run, pl>>

\* main calls get_subscribed_upload_playlists, which yields n upload
\* playlists (its calls may set the latch, or raise), and then enters
\* iter_recent_from_uploads(uploads, days, limit).
GetUploads(out, n, days, limit) ==
    /\ acq.phase = "start"
    /\ out \in ExecutorResults(QUOTA_EXHAUSTED)
    /\ QUOTA_EXHAUSTED' = out.latch
    /\ LET a == [acq EXCEPT !.strategy = "uploads", !.per_channel_limit = limit,
                            !.cutoff = Cutoff(days),
                            !.atLatch = SnapshotAfter(acq, QUOTA_EXHAUSTED, out.latch, <<>>)]
       IN  acq' = IF out.res = "raised"
                  THEN MainOnException(a, out.latch)
                  ELSE [a EXCEPT !.phase = "uploads_loop", !.sources = n, !.idx = 1]
    /\ UNCHANGED <<execVars, shorts, flt, store, chain, run, pl>>

\* One iteration of `for entry in uploads_info`: the listing call for the
\* entry's playlist (first page), then the item loop.
UploadsList(out, items) ==
    /\ acq.phase = "uploads_loop"
    /\ acq.idx <= acq.sources
    /\ out \in ExecutorResults(QUOTA_EXHAUSTED)
    /\ QUOTA_EXHAUSTED' = out.latch
    /\ LET a == [acq EXCEPT !.issued = Append(@, acq.idx),
                            !.atLatch = SnapshotAfter(acq, QUOTA_EXHAUSTED, out.latch, acq.videos)]
           t == UploadsTake(acq.videos, 0, items, acq.cutoff, acq.per_channel_limit)
       IN  acq' = IF out.res = "raised"
                  THEN MainOnException(a, out.latch)
                  ELSE IF out.res = "null"
                  THEN [a EXCEPT !.idx = @ + 1, !.gots = Append(@, 0)]
                  ELSE [a EXCEPT !.idx = @ + 1, !.videos = t.videos,
                                 !.gots = Append(@, t.got)]
    /\ UNCHANGED <<execVars, shorts, flt, store, chain, run, pl>>

\* The loop over uploads_info ends and the strategy returns videos.
UploadsReturn ==
    /\ acq.phase = "uploads_loop"
    /\ acq.idx > acq.sources
    /\ acq' = [acq EXCEPT !.phase = "returned"]
    /\ UNCHANGED <<QUOTA_EXHAUSTED, execVars, shorts, flt, store, chain, run, pl>>

\* main that drops what the strategy returned when the latch is set.
MainAcquired_DropOnQuota ==
    /\ acq.phase = "returned"
    /\ acq' = [acq EXCEPT !.phase = "filter",
                          !.candidates = IF QUOTA_EXHAUSTED THEN <<>> ELSE acq.videos]
    /\ UNCHANGED <<QUOTA_EXHAUSTED, execVars, shorts, flt, store, chain, run, pl>>

\* main assigns the strategy's return value to candidates and goes on to the
\* filter pipeline, whatever the latch.
MainAcquired ==
    /\ acq.phase = "returned"
    /\ acq' = [acq EXCEPT !.phase = "filter", !.candidates = acq.videos]
    /\ UNCHANGED <<QUOTA_EXHAUSTED, execVars, shorts, flt, store, chain, run, pl>>

NextAcq ==
    \/ \E mv \in 0..MaxVideosArg, n \in SampleSizes :
         \E out \in ExecutorResults(QUOTA_EXHAUSTED) : EffSample(mv, out, n)
    \/ \E out \in ExecutorResults(QUOTA_EXHAUSTED), items \in SearchItemLists :
         EffSearch(out, items)
    \/ EffReturn
    \/ \E n \in 0..MaxUploads, days \in 0..(MaxTime - 1), limit \in 0..MaxChannelLimit :
         \E out \in ExecutorResults(QUOTA_EXHAUSTED) : GetUploads(out, n, days, limit)
    \/ \E out \in ExecutorResults(QUOTA_EXHAUSTED), items \in ItemLists :
         UploadsList(out, items)
    \/ UploadsReturn
    \/ MainAcquired

SpecAcq == InitAcq /\ [][NextAcq]_vars

\* ---------------------------------------------------------------- claims

\* No two entries of list xs carry the same videoId.
DistinctIds(xs) ==
    \A i, j \in 1..Len(xs) : i # j => xs[i].videoId # xs[j].videoId

\* C11: the list an acquisition strategy returns holds no two items with the
\* same videoId, whatever the responses were.
C11_ReturnedIdsDistinct ==
    acq.phase = "returned" => DistinctIds(acq.videos)

\* C12: once the latch is set during a strategy, what was collected until
\* then is what the strategy returns and what main hands to the filter
\* pipeline, and the run does not end there.
C12_PartialResultsKept ==
    (acq.phase # "parked" /\ acq.atLatch.taken)
        => /\ acq.phase # "exit"
           /\ acq.videos = acq.atLatch.videos
           /\ acq.phase = "filter" => acq.candidates = acq.atLatch.videos

\* C12 witness: the latch was set with two items collected and a source
\* still to visit, and main went on to the pipeline with those two items.
C12_Witness ==
    /\ acq.phase = "filter"
    /\ QUOTA_EXHAUSTED
    /\ acq.atLatch.taken
    /\ Len(acq.atLatch.videos) = 2
    /\ acq.candidates = acq.atLatch.videos
    /\ Len(acq.issued) < acq.sources

\* C13: the sampled-search strategy never holds more than max_videos items,
\* issues at most one search call per sampled source and at most 20 in all,
\* and issues none once max_videos items are collected.
C13_SampledSearchBounds ==
    /\ [](acq.phase # "parked" /\ acq.strategy = "efficient"
            => /\ Len(acq.videos) <= acq.max_videos
               /\ Len(acq.issued) <= 20
               /\ \A i, j \in 1..Len(acq.issued) : i # j => acq.issued[i] # acq.issued[j]
               /\ \A i \in 1..Len(acq.issued) : acq.issued[i] \in 1..acq.sources)
    /\ [][(acq.phase = "eff_loop" /\ acq'.issued # acq.issued)
            => Len(acq.videos) < acq.max_videos]_vars

\* C13 witness: 21 sampled sources, 20 search calls, and the twentieth
\* response filled the list up to max_videos.
C13_Witness ==
    /\ acq.phase = "returned"
    /\ acq.strategy = "efficient"
    /\ acq.sources = 21
    /\ Len(acq.issued) = 20
    /\ acq.max_videos = 2
    /\ Len(acq.videos) = 2

\* C14: the listing strategy issues exactly one listing call per source,
\* yields no item published before the cutoff, and yields at most
\* per_channel_limit items from any one source, for every per_channel_limit.
C14_ListingBounds ==
    (acq.phase \in {"uploads_loop", "returned"} /\ acq.strategy = "uploads")
        => /\ acq.issued = [i \in 1..(acq.idx - 1) |-> i]
           /\ acq.phase = "returned" => Len(acq.issued) = acq.sources
           /\ \A i \in 1..Len(acq.videos) :
                acq.cutoff = <<>> \/ acq.videos[i].publishedAt >= acq.cutoff[1]
           /\ \A i \in 1..Len(acq.gots) : acq.gots[i] <= acq.per_channel_limit

\* The parts of C14 that hold: one call per source and the cutoff.
C14_CallsAndCutoff ==
    (acq.phase \in {"uploads_loop", "returned"} /\ acq.strategy = "uploads")
        => /\ acq.issued = [i \in 1..(acq.idx - 1) |-> i]
           /\ acq.phase = "returned" => Len(acq.issued) = acq.sources
           /\ \A i \in 1..Len(acq.videos) :
                acq.cutoff = <<>> \/ acq.videos[i].publishedAt >= acq.cutoff[1]
           /\ \A i \in 1..Len(acq.gots) :
                acq.per_channel_limit >= 1 => acq.gots[i] <= acq.per_channel_limit

\* ================================================================ part 3
\* exclude_shorts(youtube, videos, max_seconds).

\* Longest list handed to exclude_shorts.
MaxShortsInput == 2

\* ids[i:i+50]: the ids of one videos.list call.
ChunkSize == 50

\* Values of max_seconds.
Thresholds == {0, 60}

\* duration_seconds of the items that carry one on entry.
KnownSeconds == {0, 60, 61}

\* contentDetails.duration values, character by character: PT0S, PT1M,
\* PT1M1S, PT10M and the day form P1DT1M1S.
DurationStrings ==
    {<<"P", "T", "0", "S">>,
     <<"P", "T", "1", "M">>,
     <<"P", "T", "1", "M", "1", "S">>,
     <<"P", "T", "1", "0", "M">>,
     <<"P", "1", "D", "T", "1", "M", "1", "S">>}

\* ch.isdigit()
IsDigit(ch) == ch \in {"0", "1", "2", "3", "4", "5", "6", "7", "8", "9"}

\* The value of a digit character.
DigitValue(ch) ==
    CASE ch = "0" -> 0 [] ch = "1" -> 1 [] ch = "2" -> 2 [] ch = "3" -> 3
      [] ch = "4" -> 4 [] ch = "5" -> 5 [] ch = "6" -> 6 [] ch = "7" -> 7
      [] ch = "8" -> 8 [] ch = "9" -> 9

\* int(num or 0), num being <<>> or <<n>>.
IntOr0(num) == IF num = <<>> THEN 0 ELSE num[1]

\* The character loop of _parse_iso8601_duration_to_seconds.
RECURSIVE ParseLoop(_, _, _, _, _)
ParseLoop(str, h, m, sec, num) ==
    IF str = <<>>
    THEN h * 3600 + m * 60 + sec
    ELSE LET ch == Head(str)
             rest == Tail(str)
         IN  IF IsDigit(ch)
             THEN ParseLoop(rest, h, m, sec, <<IntOr0(num) * 10 + DigitValue(ch)>>)
             ELSE IF ch = "H" THEN ParseLoop(rest, IntOr0(num), m, sec, <<>>)
             ELSE IF ch = "M" THEN ParseLoop(rest, h, IntOr0(num), sec, <<>>)
             ELSE IF ch = "S" THEN ParseLoop(rest, h, m, IntOr0(num), <<>>)
             ELSE ParseLoop(rest, h, m, sec, num)

\* _parse_iso8601_duration_to_seconds: 0 unless the string starts with PT.
_parse_iso8601_duration_to_seconds(str) ==
    IF Len(str) < 2 \/ SubSeq(str, 1, 2) # <<"P", "T">>
    THEN 0
    ELSE ParseLoop(SubSeq(str, 3, Len(str)), 0, 0, 0, <<>>)

\* The keep test with a non-strict comparison.
IsLong_NonStrict(secs, max_seconds) == secs >= max_seconds

\* `if secs > max_seconds: kept.append(v)`.
IsLong(secs, max_seconds) == secs > max_seconds

\* The items of the input list.  duration_seconds is <<n>> or, when the key
\* is absent, <<>>.  how and iso record how the duration got there: "given"
\* on entry, "found" in a lookup response (iso is the string found),
\* "missing" from a lookup response, "null" when the lookup gave no
\* response, "pending" before the lookup.
ShortsItems ==
    [videoId : VideoIds, duration_seconds : {<<n>> : n \in KnownSeconds},
     how : {"given"}, iso : {<<>>}]
        \cup [videoId : VideoIds, duration_seconds : {<<>>},
              how : {"pending"}, iso : {<<>>}]

ShortsInputs == UNION {[1..n -> ShortsItems] : n \in 0..MaxShortsInput}

\* What a videos.list response says about one id: no item for it, an item
\* without contentDetails.duration (<<>>), or an item with a duration.
NoItem == <<"absent">>

DetailsOf == {NoItem, <<>>} \cup DurationStrings

\* The responses of videos.list: one entry per id.
DetailsMaps == [VideoIds -> DetailsOf]

\* Positions p of list xs that satisfy Test(xs[p]), in order.
RECURSIVE PositionsFrom(_, _, _)
PositionsFrom(xs, p, known) ==
    IF p > Len(xs)
    THEN <<>>
    ELSE IF (xs[p].duration_seconds # <<>>) = known
    THEN <<p>> \o PositionsFrom(xs, p + 1, known)
    ELSE PositionsFrom(xs, p + 1, known)

\* The first pass over the positions with a duration: those that are long.
RECURSIVE FirstPassKept(_, _, _)
FirstPassKept(xs, ps, max_seconds) ==
    IF ps = <<>>
    THEN <<>>
    ELSE IF IsLong(xs[Head(ps)].duration_seconds[1], max_seconds)
    THEN <<Head(ps)>> \o FirstPassKept(xs, Tail(ps), max_seconds)
    ELSE FirstPassKept(xs, Tail(ps), max_seconds)

\* dur = details.get(id, {}).get("duration"); secs = parse(dur or "PT0S").
LookupSeconds(details, id) ==
    LET dur == details[id]
    IN  IF dur = NoItem \/ dur = <<>>
        THEN _parse_iso8601_duration_to_seconds(<<"P", "T", "0", "S">>)
        ELSE _parse_iso8601_duration_to_seconds(dur)

\* The item at a position after a lookup response: duration_seconds is set.
Looked(v, details) ==
    LET dur == details[v.videoId]
        miss == dur = NoItem \/ dur = <<>>
    IN  [v EXCEPT !.duration_seconds = <<LookupSeconds(details, v.videoId)>>,
                  !.how = IF miss THEN "missing" ELSE "found",
                  !.iso = IF miss THEN <<>> ELSE dur]

\* The loop over one chunk of a response: set each item's duration and keep
\* the long ones.  Yields the list and kept.
RECURSIVE ChunkLoop(_, _, _, _, _)
ChunkLoop(xs, kept, ps, details, max_seconds) ==
    IF ps = <<>>
    THEN [videos |-> xs, kept |-> kept]
    ELSE LET p == Head(ps)
             v == Looked(xs[p], details)
         IN  ChunkLoop([xs EXCEPT ![p] = v],
                       IF IsLong(v.duration_seconds[1], max_seconds)
                       THEN Append(kept, p) ELSE kept,
                       Tail(ps), details, max_seconds)

\* The items of a chunk whose lookup gave no response.
MarkNull(xs, ps) ==
    [p \in 1..Len(xs) |->
        IF \E k \in 1..Len(ps) : ps[k] = p THEN [xs[p] EXCEPT !.how = "null"] ELSE xs[p]]

ShortsStart ==
    [phase |-> "start", videos |-> <<>>, max_seconds |-> 0, kept |-> <<>>,
     need |-> <<>>, i |-> 0, input |-> <<>>]

InitShorts ==
    /\ QUOTA_EXHAUSTED \in BOOLEAN
    /\ pc = "idle"
    /\ what = <<>>
    /\ max_attempts = 0
    /\ attempt = 0
    /\ delay = 0
    /\ result = "pending"
    /\ calls = 0
    /\ slept = <<>>
    /\ last = NoOutcome
    /\ n503 = 0
    /\ nExc = 0
    /\ acq = Parked
    /\ shorts = ShortsStart
    /\ flt = Parked
    /\ store = Parked
    /\ chain = Parked
    /\ run = Parked
    /\ pl = Parked

\* exclude_shorts is called with list vs and threshold T: the empty list is
\* returned as is; otherwise the first pass runs.  kept and need hold
\* positions of the list (the dicts are shared with the caller's list).
ShortsFirstPass(vs, T) ==
    /\ shorts.phase = "start"
    /\ LET need == PositionsFrom(vs, 1, FALSE)
           kept == FirstPassKept(vs, PositionsFrom(vs, 1, TRUE), T)
       IN  shorts' = [phase |-> IF vs = <<>> THEN "returned" ELSE "lookup",
                      videos |-> vs, max_seconds |-> T, kept |-> kept,
                      need |-> need, i |-> 0, input |-> vs]
    /\ UNCHANGED <<QUOTA_EXHAUSTED, execVars, acq, flt, store, chain, run, pl>>

\* One iteration of `for i in range(0, len(ids), 50)`: the videos.list call
\* for the chunk and the handling of what it gave.
ShortsChunk(out, details) ==
    /\ shorts.phase = "lookup"
    /\ shorts.i < Len(shorts.need)
    /\ out \in ExecutorResults(QUOTA_EXHAUSTED)
    /\ QUOTA_EXHAUSTED' = out.latch
    /\ LET chunk == SubSeq(shorts.need, shorts.i + 1,
                           Min2(shorts.i + ChunkSize, Len(shorts.need)))
           r == ChunkLoop(shorts.videos, shorts.kept, chunk, details, shorts.max_seconds)
       IN  shorts' = IF out.res = "raised"
                     THEN [shorts EXCEPT !.phase = "raised"]
                     ELSE IF out.res = "response"
                     THEN [shorts EXCEPT !.videos = r.videos, !.kept = r.kept,
                                         !.i = @ + ChunkSize]
                     ELSE [shorts EXCEPT !.videos = MarkNull(@, chunk),
                                         !.kept = @ \o chunk,
                                         !.i = @ + ChunkSize]
    /\ UNCHANGED <<execVars, acq, flt, store, chain, run, pl>>

\* The chunk loop is over (or there was nothing to look up): return kept.
ShortsReturn ==
    /\ shorts.phase = "lookup"
    /\ shorts.i >= Len(shorts.need)
    /\ shorts' = [shorts EXCEPT !.phase = "returned"]
    /\ UNCHANGED <<QUOTA_EXHAUSTED, execVars, acq, flt, store, chain, run, pl>>

NextShorts ==
    \/ /\ shorts.phase = "start"
       /\ \E vs \in ShortsInputs, T \in Thresholds : ShortsFirstPass(vs, T)
    \/ \E out \in ExecutorResults(QUOTA_EXHAUSTED), details \in DetailsMaps :
         ShortsChunk(out, details)
    \/ ShortsReturn

SpecShorts == InitShorts /\ [][NextShorts]_vars

\* ---------------------------------------------------------------- claims

\* Position p is in the returned list.
ShortsKept(p) == \E k \in 1..Len(shorts.kept) : shorts.kept[k] = p

\* C15: with threshold T, an item whose resolved duration is at most T is
\* dropped and one whose resolved duration is above T is kept, whether the
\* duration came with the item or from the lookup; in particular, with
\* T = 60, a looked-up PT1M is dropped and a looked-up PT1M1S is kept.
C15_ThresholdIsExclusive ==
    shorts.phase = "returned"
        => \A p \in 1..Len(shorts.videos) :
             LET v == shorts.videos[p]
             IN  /\ v.how \in {"given", "found"}
                     => (ShortsKept(p) <=> v.duration_seconds[1] > shorts.max_seconds)
                 /\ (v.how = "found" /\ shorts.max_seconds = 60)
                     => /\ v.iso = <<"P", "T", "1", "M">> => ~ShortsKept(p)
                        /\ v.iso = <<"P", "T", "1", "M", "1", "S">> => ShortsKept(p)
                        /\ v.iso = <<"P", "T", "1", "0", "M">> => ShortsKept(p)

\* C15 witness: threshold 60, one item given with 61 seconds and kept, one
\* looked up as PT1M and dropped.
C15_Witness ==
    /\ shorts.phase = "returned"
    /\ shorts.max_seconds = 60
    /\ Len(shorts.videos) = 2
    /\ shorts.videos[1].how = "given"
    /\ shorts.videos[1].duration_seconds = <<61>>
    /\ shorts.videos[2].how = "found"
    /\ shorts.videos[2].iso = <<"P", "T", "1", "M">>
    /\ shorts.kept = <<1>>

\* C16: an item whose duration cannot be resolved is kept, both when the
\* lookup gives no response and when the response has no duration for it.
C16_UnresolvedIsKept ==
    shorts.phase = "returned"
        => \A p \in 1..Len(shorts.videos) :
             shorts.videos[p].how \in {"null", "missing"} => ShortsKept(p)

\* The part of C16 that holds: kept when the lookup gives no response.
C16_NoResponseIsKept ==
    shorts.phase = "returned"
        => \A p \in 1..Len(shorts.videos) :
             shorts.videos[p].how = "null" => ShortsKept(p)

\* C19: the returned list is a subsequence of the input list: the kept
\* positions are strictly increasing.
C19_OrderPreserved ==
    shorts.phase = "returned"
        => \A j, k \in 1..Len(shorts.kept) : j < k => shorts.kept[j] < shorts.kept[k]

\* The part of C19 that holds: order is preserved when the input does not
\* mix items with and without a duration.
C19_OrderPreservedUnmixed ==
    (/\ shorts.phase = "returned"
     /\ \/ \A p \in 1..Len(shorts.input) : shorts.input[p].how = "given"
        \/ \A p \in 1..Len(shorts.input) : shorts.input[p].how = "pending")
        => \A j, k \in 1..Len(shorts.kept) : j < k => shorts.kept[j] < shorts.kept[k]

\* ================================================================ part 4
\* main, from the dedup filter (l.1065) to the end of the processing loop.

\* Longest candidate list reaching the dedup filter.
MaxCands == 2

\* publishedAt values are 1..MaxPub: timestamps of one format, whose string
\* order is their time order.
MaxPub == 2

\* Largest YT_MAX_VIDEOS.
MaxCap == 2

FilterItems == [videoId : VideoIds, publishedAt : 1..MaxPub]

FilterInputs == UNION {[1..n -> FilterItems] : n \in 0..MaxCands}

\* The dedup tests without the video_errors test.
IsSeen_NoErrors(vid, processed_ids, video_errors, takeout_ids) ==
    \/ vid \in processed_ids
    \/ takeout_ids # {} /\ vid \in takeout_ids

\* The dedup tests without the processed_ids test.
IsSeen_NoProcessed(vid, processed_ids, video_errors, takeout_ids) ==
    \/ vid \in video_errors
    \/ takeout_ids # {} /\ vid \in takeout_ids

\* The three `continue` tests of the dedup loop; video_errors stands for
\* the key set of the error map.
IsSeen(vid, processed_ids, video_errors, takeout_ids) ==
    \/ vid \in processed_ids
    \/ vid \in video_errors
    \/ takeout_ids # {} /\ vid \in takeout_ids

\* The dedup loop: filtered.append(v) for the items not seen.
RECURSIVE Unseen(_, _, _, _)
Unseen(xs, processed_ids, video_errors, takeout_ids) ==
    IF xs = <<>>
    THEN <<>>
    ELSE IF IsSeen(Head(xs).videoId, processed_ids, video_errors, takeout_ids)
    THEN Unseen(Tail(xs), processed_ids, video_errors, takeout_ids)
    ELSE <<Head(xs)>> \o Unseen(Tail(xs), processed_ids, video_errors, takeout_ids)

\* Insert v into a list sorted by publishedAt descending, behind the items
\* with an equal key.
RECURSIVE InsertDesc(_, _)
InsertDesc(sorted, v) ==
    IF sorted = <<>>
    THEN <<v>>
    ELSE IF Head(sorted).publishedAt >= v.publishedAt
    THEN <<Head(sorted)>> \o InsertDesc(Tail(sorted), v)
    ELSE <<v>> \o sorted

\* candidates.sort(key=publishedAt, reverse=True): stable, newest first.
RECURSIVE SortNewestFirst(_, _)
SortNewestFirst(sorted, xs) ==
    IF xs = <<>>
    THEN sorted
    ELSE SortNewestFirst(InsertDesc(sorted, Head(xs)), Tail(xs))

\* The cap applied in --urls mode as well.
GlobalCap_AlsoUrls(xs, yt_max_videos, urls) ==
    IF yt_max_videos > 0
    THEN SubSeq(xs, 1, Min2(yt_max_videos, Len(xs)))
    ELSE xs

\* `if cfg["YT_MAX_VIDEOS"] > 0 and args.urls is None: candidates[:cap]`.
GlobalCap(xs, yt_max_videos, urls) ==
    IF yt_max_videos > 0 /\ ~urls
    THEN SubSeq(xs, 1, Min2(yt_max_videos, Len(xs)))
    ELSE xs

FilterStart ==
    [phase |-> "start", input |-> <<>>, loaded_ids |-> {}, loaded_errors |-> {},
     takeout_ids |-> {}, yt_max_videos |-> 0, urls |-> FALSE, dryrun |-> FALSE,
     filtered |-> <<>>, candidates |-> <<>>, idx |-> 0, handed |-> <<>>,
     processed_ids |-> {}, video_errors |-> {}, save_called |-> FALSE]

InitFilter ==
    /\ QUOTA_EXHAUSTED \in BOOLEAN
    /\ pc = "idle"
    /\ what = <<>>
    /\ max_attempts = 0
    /\ attempt = 0
    /\ delay = 0
    /\ result = "pending"
    /\ calls = 0
    /\ slept = <<>>
    /\ last = NoOutcome
    /\ n503 = 0
    /\ nExc = 0
    /\ acq = Parked
    /\ shorts = Parked
    /\ flt = FilterStart
    /\ store = Parked
    /\ chain = Parked
    /\ run = Parked
    /\ pl = Parked

\* l.1065-1091: the dedup filter over the candidates, the sort and the cap.
\* P and E are the id set and the error keys load_state gave, K the ids of
\* the watch history.
SelectCandidates(cands, P, E, K, cap, urls, dryrun) ==
    /\ flt.phase = "start"
    /\ LET filtered == Unseen(cands, P, E, K)
           final == GlobalCap(SortNewestFirst(<<>>, filtered), cap, urls)
       IN  flt' = [flt EXCEPT !.phase = "selected", !.input = cands,
                              !.loaded_ids = P, !.loaded_errors = E,
                              !.takeout_ids = K, !.yt_max_videos = cap,
                              !.urls = urls, !.dryrun = dryrun,
                              !.filtered = filtered, !.candidates = final,
                              !.processed_ids = P, !.video_errors = E]
    /\ UNCHANGED <<QUOTA_EXHAUSTED, execVars, acq, shorts, store, chain, run, pl>>

\* l.1093-1097: nothing survived; the state is saved unless this is a dry
\* run (or --skip-state, drawn here).
NoCandidates(skip_state) ==
    /\ flt.phase = "selected"
    /\ flt.candidates = <<>>
    /\ flt' = [flt EXCEPT !.phase = "done",
                          !.save_called = ~flt.dryrun /\ ~skip_state]
    /\ UNCHANGED <<QUOTA_EXHAUSTED, execVars, acq, shorts, store, chain, run, pl>>

\* l.1099-1121: one item of the dry-run list; its transcript is fetched and
\* nothing is recorded.
DryRunItem ==
    /\ flt.phase = "selected"
    /\ flt.candidates # <<>>
    /\ flt.dryrun
    /\ flt.idx < Len(flt.candidates)
    /\ flt' = [flt EXCEPT !.idx = @ + 1,
                          !.handed = Append(@, flt.candidates[flt.idx + 1].videoId)]
    /\ UNCHANGED <<QUOTA_EXHAUSTED, execVars, acq, shorts, store, chain, run, pl>>

\* l.1127-1165: one item of the processing loop.  The transcript is fetched;
\* outcome "error" is one of the three caught transcript errors (the id goes
\* to video_errors), "marked" is a path that reaches processed_ids.add
\* (l.1149, l.1163), "unmarked" a path that does not (l.1150, l.1165 or
\* --skip-state).
ProcessItem(outcome) ==
    /\ flt.phase = "selected"
    /\ flt.candidates # <<>>
    /\ ~flt.dryrun
    /\ flt.idx < Len(flt.candidates)
    /\ LET vid == flt.candidates[flt.idx + 1].videoId
       IN  flt' = [flt EXCEPT !.idx = @ + 1,
                              !.handed = Append(@, vid),
                              !.video_errors =
                                  IF outcome = "error" THEN @ \cup {vid} ELSE @,
                              !.processed_ids =
                                  IF outcome = "marked" THEN @ \cup {vid} ELSE @]
    /\ UNCHANGED <<QUOTA_EXHAUSTED, execVars, acq, shorts, store, chain, run, pl>>

\* l.1122-1123 and l.1167-1168: the loop is over; a real run saves the
\* state unless --skip-state is given.
LoopDone(skip_state) ==
    /\ flt.phase = "selected"
    /\ flt.candidates # <<>>
    /\ flt.idx >= Len(flt.candidates)
    /\ flt' = [flt EXCEPT !.phase = "done",
                          !.save_called = ~flt.dryrun /\ ~skip_state]
    /\ UNCHANGED <<QUOTA_EXHAUSTED, execVars, acq, shorts, store, chain, run, pl>>

NextFilter ==
    \/ /\ flt.phase = "start"
       /\ \E cands \in FilterInputs, P \in SUBSET VideoIds, E \in SUBSET VideoIds,
             K \in SUBSET VideoIds, cap \in 0..MaxCap, urls \in BOOLEAN,
             dryrun \in BOOLEAN :
            SelectCandidates(cands, P, E, K, cap, urls, dryrun)
    \/ \E skip_state \in BOOLEAN : NoCandidates(skip_state)
    \/ DryRunItem
    \/ \E outcome \in {"error", "marked", "unmarked"} : ProcessItem(outcome)
    \/ \E skip_state \in BOOLEAN : LoopDone(skip_state)

SpecFilter == InitFilter /\ [][NextFilter]_vars

\* ---------------------------------------------------------------- claims

\* C17: every id handed to fetch_transcript_any_lang is outside the loaded
\* processed set, the loaded error map and the watch-history set, and the
\* filter's output holds no item whose id is in one of the three.
C17_SeenNeverReachesTranscripts ==
    /\ \A k \in 1..Len(flt.handed) :
         /\ flt.handed[k] \notin flt.loaded_ids
         /\ flt.handed[k] \notin flt.loaded_errors
         /\ flt.handed[k] \notin flt.takeout_ids
    /\ flt.phase \in {"selected", "done"}
        => \A k \in 1..Len(flt.filtered) :
             /\ flt.filtered[k].videoId \notin flt.loaded_ids
             /\ flt.filtered[k].videoId \notin flt.loaded_errors
             /\ flt.filtered[k].videoId \notin flt.takeout_ids

\* C17 witness: two candidates, one with a recorded error; only the other
\* one was handed to the transcript chain.
C17_Witness ==
    /\ flt.phase = "done"
    /\ Len(flt.input) = 2
    /\ flt.input[1].videoId = "v1"
    /\ flt.input[2].videoId = "v2"
    /\ flt.loaded_errors = {"v1"}
    /\ flt.loaded_ids = {}
    /\ flt.takeout_ids = {}
    /\ flt.handed = <<"v2">>

\* Number of occurrences of x in list xs.
CountIn(xs, x) == Cardinality({k \in 1..Len(xs) : xs[k] = x})

\* C18: the survivors are ordered by publish time descending; with a
\* positive cap outside --urls mode they are the cap newest of the filtered
\* items (at most cap of them); in --urls mode, or without a cap, every
\* filtered item survives.
C18_NewestFirstAndCapped ==
    flt.phase \in {"selected", "done"}
        => LET final == flt.candidates
               filtered == flt.filtered
               capped == flt.yt_max_videos > 0 /\ ~flt.urls
           IN  /\ \A j, k \in 1..Len(final) :
                    j < k => final[j].publishedAt >= final[k].publishedAt
               /\ \A x \in FilterItems : CountIn(final, x) <= CountIn(filtered, x)
               /\ capped
                    => /\ Len(final) <= flt.yt_max_videos
                       /\ Len(final) = flt.yt_max_videos \/ Len(final) = Len(filtered)
                       /\ \A x \in FilterItems :
                            CountIn(final, x) < CountIn(filtered, x)
                                => \A k \in 1..Len(final) :
                                     final[k].publishedAt >= x.publishedAt
               /\ ~capped => Len(final) = Len(filtered)

\* C18 witness: cap 1 outside --urls mode, two survivors of the filter with
\* the older one first; only the newer one is selected.
C18_Witness ==
    /\ flt.phase = "selected"
    /\ flt.yt_max_videos = 1
    /\ ~flt.urls
    /\ Len(flt.filtered) = 2
    /\ flt.filtered[1].publishedAt < flt.filtered[2].publishedAt
    /\ flt.candidates = <<flt.filtered[2]>>

\* ================================================================ part 5
\* The state store: load_state(path, max_age_days), save_state(path, ...)
\* and what a run does to the loaded collections in between.

\* Largest max_age_days.
MaxAgeDays == 2

\* Number of runs (loads of the state file) in one behaviour.
MaxRuns == 2

\* `max_age_days * 86400`.
SecondsPerDay == 86400

\* time.time() at the first load.
FirstClock == (MaxAgeDays + 1) * SecondsPerDay

\* The values of time.time(): the first load and one second later.
Clocks == {FirstClock, FirstClock + 1}

\* Timestamps found in a state file: a whole number of days before the
\* first load, and one second later.
Stamps ==
    {FirstClock - k * SecondsPerDay + e : k \in 0..MaxAgeDays, e \in {0, 1}}

\* The values of video_errors.
ErrorNames == {"TranscriptsDisabled"}

\* A dict with keys among the video ids.
MapsTo(values) == UNION {[D -> values] : D \in SUBSET VideoIds}

EmptyMap == [id \in {} |-> 0]

\* What is at the path.  kind tells how far load_state gets: "missing" (open
\* raises), "unparsable" (json.load raises), "not_object" (data.get raises),
\* "bad_timestamp" (a timestamp that is not a number: the comparison of the
\* prune raises), "json" (nothing raises).  An absent key reads as its
\* default, the empty value; the files with only the legacy list
\* processed_video_ids are among them.  errors_shape is "other" when the value under
\* video_errors is not an object (a list, say): nothing in load_state looks
\* at it.
StateFiles ==
    [kind : {"missing", "unparsable", "not_object", "bad_timestamp"},
     processed_timestamps : {EmptyMap}, processed_video_ids : {{}},
     video_errors : {EmptyMap}, errors_shape : {"map"}]
        \cup [kind : {"json"}, processed_timestamps : MapsTo(Stamps),
              processed_video_ids : {{}, VideoIds},
              video_errors : MapsTo(ErrorNames), errors_shape : {"map"}]
        \cup [kind : {"json"}, processed_timestamps : {EmptyMap},
              processed_video_ids : SUBSET VideoIds,
              video_errors : {EmptyMap}, errors_shape : {"map"}]
        \cup [kind : {"json"}, processed_timestamps : MapsTo({FirstClock}),
              processed_video_ids : {{}},
              video_errors : {EmptyMap}, errors_shape : {"other"}]

\* The prune test with a non-strict comparison.
IsLive_Inclusive(ts, cutoff_time) == ts >= cutoff_time

\* `if ts > cutoff_time`.
IsLive(ts, cutoff_time) == ts > cutoff_time

\* l.161-165: legacy ids without a timestamp get the current time.
Migrated(processed_timestamps, old_list, current_time) ==
    [vid \in (DOMAIN processed_timestamps) \cup old_list |->
        IF vid \in DOMAIN processed_timestamps
        THEN processed_timestamps[vid] ELSE current_time]

\* l.167-172: the entries newer than the cutoff.
Pruned(processed_timestamps, cutoff_time) ==
    [vid \in {v \in DOMAIN processed_timestamps :
                 IsLive(processed_timestamps[v], cutoff_time)} |->
        processed_timestamps[vid]]

\* The error map restricted to the live ids.
LoadedErrors_Pruned(file, live) ==
    [vid \in (DOMAIN file.video_errors) \cap (DOMAIN live) |-> file.video_errors[vid]]

\* `video_errors = data.get("video_errors", {})`.
LoadedErrors(file, live) == file.video_errors

\* What load_state returns when nothing was read.
NothingLoaded ==
    [processed_ids |-> {}, video_errors |-> EmptyMap, errors_shape |-> "map",
     processed_timestamps |-> EmptyMap]

\* load_state: (processed_ids, video_errors, processed_timestamps);
\* errors_shape tells whether video_errors is a dict.
load_state(file, max_age_days, current_time) ==
    IF file.kind # "json"
    THEN NothingLoaded
    ELSE LET stamped == Migrated(file.processed_timestamps,
                                 file.processed_video_ids, current_time)
             cutoff_time == current_time - max_age_days * SecondsPerDay
             live == Pruned(stamped, cutoff_time)
         IN  [processed_ids |-> DOMAIN live,
              video_errors |-> LoadedErrors(file, live),
              errors_shape |-> file.errors_shape,
              processed_timestamps |-> live]

\* save_state without the stamping of new ids: only the timestamps given.
SavedStamps_NoStamping(processed_ids, processed_timestamps, current_time) ==
    processed_timestamps

\* save_state where every id is stamped with the time of the save.
SavedStamps_Restamp(processed_ids, processed_timestamps, current_time) ==
    [vid \in (DOMAIN processed_timestamps) \cup processed_ids |-> current_time]

\* l.189-193: every processed id without a timestamp gets the current time.
SavedStamps(processed_ids, processed_timestamps, current_time) ==
    [vid \in (DOMAIN processed_timestamps) \cup processed_ids |->
        IF vid \in DOMAIN processed_timestamps
        THEN processed_timestamps[vid] ELSE current_time]

\* save_state: the file it writes, with the two keys processed_timestamps
\* and video_errors.
save_state(processed_ids, video_errors, errors_shape, processed_timestamps, current_time) ==
    [kind |-> "json",
     processed_timestamps |-> SavedStamps(processed_ids, processed_timestamps,
                                           current_time),
     processed_video_ids |-> {},
     video_errors |-> video_errors,
     errors_shape |-> errors_shape]

\* No load or save has happened yet.
NoLoad == [at |-> 0, max_age_days |-> 0, result |-> NothingLoaded, file |-> <<>>]

NoSave ==
    [taken |-> FALSE, at |-> 0, processed_ids |-> {}, video_errors |-> EmptyMap,
     processed_timestamps |-> EmptyMap, touched |-> FALSE]

InitState ==
    /\ QUOTA_EXHAUSTED = FALSE
    /\ pc = "idle"
    /\ what = <<>>
    /\ max_attempts = 0
    /\ attempt = 0
    /\ delay = 0
    /\ result = "pending"
    /\ calls = 0
    /\ slept = <<>>
    /\ last = NoOutcome
    /\ n503 = 0
    /\ nExc = 0
    /\ acq = Parked
    /\ shorts = Parked
    /\ flt = Parked
    /\ chain = Parked
    /\ run = Parked
    /\ pl = Parked
    /\ \E file \in StateFiles :
         store = [phase |-> "start", file |-> file, max_age_days |-> 0, now |-> 0,
                  runs |-> 0, touched |-> FALSE, by |-> "none",
                  processed_ids |-> {}, video_errors |-> EmptyMap,
                  errors_shape |-> "map", processed_timestamps |-> EmptyMap,
                  loaded |-> NoLoad, prev |-> NoLoad, saved |-> NoSave]

\* A run starts: load_state at time current_time (l.944, and l.38 of
\* mark_playlist_existing.py).  The clock does not go back and the
\* configured max_age_days stays what it was.  loaded and prev remember what
\* this load and the one before it returned.
LoadState(max_age_days, current_time) ==
    /\ store.phase = "start"
    /\ store.runs < MaxRuns
    /\ current_time >= store.now
    /\ store.runs > 0 => max_age_days = store.max_age_days
    /\ LET r == load_state(store.file, max_age_days, current_time)
       IN  store' = [store EXCEPT !.phase = "loaded",
                                  !.max_age_days = max_age_days,
                                  !.now = current_time,
                                  !.runs = @ + 1,
                                  !.touched = FALSE,
                                  !.by = "none",
                                  !.processed_ids = r.processed_ids,
                                  !.video_errors = r.video_errors,
                                  !.errors_shape = r.errors_shape,
                                  !.processed_timestamps = r.processed_timestamps,
                                  !.prev = store.loaded,
                                  !.loaded = [at |-> current_time,
                                              max_age_days |-> max_age_days,
                                              result |-> r,
                                              file |-> <<store.file>>]]
    /\ UNCHANGED <<QUOTA_EXHAUSTED, execVars, acq, shorts, flt, chain, run, pl>>

\* processed_ids.add(vid) (l.1149, l.1163).
AddProcessed(vid) ==
    /\ store.phase = "loaded"
    /\ vid \notin store.processed_ids
    /\ store.by # "mark"
    /\ store' = [store EXCEPT !.processed_ids = @ \cup {vid}, !.touched = TRUE,
                              !.by = "main"]
    /\ UNCHANGED <<QUOTA_EXHAUSTED, execVars, acq, shorts, flt, chain, run, pl>>

\* video_errors[vid] = error_type (l.1142); the assignment raises when
\* video_errors is not a dict, and the run ends there.
AddError(vid, error_type) ==
    /\ store.phase = "loaded"
    /\ vid \notin DOMAIN store.video_errors
    /\ store.by # "mark"
    /\ store' = IF store.errors_shape = "other"
                THEN [store EXCEPT !.phase = "crashed"]
                ELSE [store EXCEPT !.touched = TRUE,
                                   !.by = "main",
                                   !.video_errors =
                                       [v \in (DOMAIN @) \cup {vid} |->
                                           IF v = vid THEN error_type ELSE @[v]]]
    /\ UNCHANGED <<QUOTA_EXHAUSTED, execVars, acq, shorts, flt, chain, run, pl>>

\* mark_playlist_existing.py marks a video of the playlist that is not in
\* processed_ids (l.65-73 there): the id is added and stamped with the time
\* taken before the loop.  by tells the two programs' runs apart.
MarkProcessed(vid) ==
    /\ store.phase = "loaded"
    /\ vid \notin store.processed_ids
    /\ store.by # "main"
    /\ store' = [store EXCEPT !.processed_ids = @ \cup {vid},
                              !.processed_timestamps =
                                  [v \in (DOMAIN @) \cup {vid} |->
                                      IF v = vid THEN store.now ELSE @[v]],
                              !.touched = TRUE,
                              !.by = "mark"]
    /\ UNCHANGED <<QUOTA_EXHAUSTED, execVars, acq, shorts, flt, chain, run, pl>>

\* The run ends with save_state at time current_time (l.1096, l.1168, and
\* l.76 of mark_playlist_existing.py).  saved remembers the arguments.
SaveState(current_time) ==
    /\ store.phase = "loaded"
    /\ current_time >= store.now
    /\ store' = [store EXCEPT
                   !.phase = "start",
                   !.now = current_time,
                   !.file = save_state(store.processed_ids, store.video_errors,
                                       store.errors_shape,
                                       store.processed_timestamps, current_time),
                   !.processed_timestamps =
                       SavedStamps(store.processed_ids, @, current_time),
                   !.saved = [taken |-> TRUE, at |-> current_time,
                              processed_ids |-> store.processed_ids,
                              video_errors |-> store.video_errors,
                              processed_timestamps |-> store.processed_timestamps,
                              touched |-> store.touched]]
    /\ UNCHANGED <<QUOTA_EXHAUSTED, execVars, acq, shorts, flt, chain, run, pl>>

\* The run ends without save_state: a dry run or --skip-state (l.1095,
\* l.1123, l.1167).
EndUnsaved ==
    /\ store.phase = "loaded"
    /\ store.by # "mark"
    /\ store' = [store EXCEPT !.phase = "start", !.saved = NoSave]
    /\ UNCHANGED <<QUOTA_EXHAUSTED, execVars, acq, shorts, flt, chain, run, pl>>

NextState ==
    \/ /\ store.phase = "start"
       /\ \E max_age_days \in 0..MaxAgeDays, current_time \in Clocks :
            LoadState(max_age_days, current_time)
    \/ \E vid \in VideoIds : AddProcessed(vid)
    \/ \E vid \in VideoIds, error_type \in ErrorNames : AddError(vid, error_type)
    \/ \E vid \in VideoIds : MarkProcessed(vid)
    \/ \E current_time \in Clocks : SaveState(current_time)
    \/ EndUnsaved

SpecState == InitState /\ [][NextState]_vars

\* ---------------------------------------------------------------- claims

\* C20: after load_state has read a state file, every live id it returns has
\* a timestamp strictly above now - max_age_days * 86400, every stored id
\* with an older timestamp is absent, and the live ids are the keys of the
\* returned timestamp map.
C20_LoadedStateIsFresh ==
    (store.runs > 0 /\ store.loaded.file[1].kind = "json")
        => LET r == store.loaded.result
               file == store.loaded.file[1]
               cutoff == store.loaded.at - store.loaded.max_age_days * 86400
           IN  /\ r.processed_ids = DOMAIN r.processed_timestamps
               /\ \A vid \in r.processed_ids : r.processed_timestamps[vid] > cutoff
               /\ \A vid \in DOMAIN file.processed_timestamps :
                    file.processed_timestamps[vid] < cutoff
                        => vid \notin r.processed_ids

\* C20 witness: one day of retention; v1 was stamped exactly one day before
\* the load and is pruned, v2 one second later and is live.
C20_Witness ==
    /\ store.phase = "loaded"
    /\ store.loaded.file[1].kind = "json"
    /\ store.loaded.max_age_days = 1
    /\ DOMAIN store.loaded.file[1].processed_timestamps = {"v1", "v2"}
    /\ store.loaded.file[1].processed_timestamps["v1"] = store.loaded.at - 86400
    /\ store.loaded.file[1].processed_timestamps["v2"] = store.loaded.at - 86400 + 1
    /\ store.loaded.result.processed_ids = {"v2"}

\* C21: error entries are never pruned by age.  load_state returns the error
\* map exactly as the file has it, save_state writes the error map it is
\* given, and no step of any sequence of runs removes an entry from the
\* file's error map.
C21_ErrorsNeverPruned ==
    [][/\ (/\ store.phase = "start"
           /\ store'.phase = "loaded"
           /\ store.file.kind = "json"
           /\ store.file.errors_shape = "map")
              => store'.loaded.result.video_errors = store.file.video_errors
       /\ (store.phase = "loaded" /\ store'.phase = "start" /\ store'.saved.taken)
              => store'.file.video_errors = store.video_errors
       /\ (store.file.kind = "json" /\ store.file.errors_shape = "map")
              => \A vid \in DOMAIN store.file.video_errors :
                   /\ vid \in DOMAIN store'.file.video_errors
                   /\ store'.file.video_errors[vid] = store.file.video_errors[vid]
      ]_vars

\* C21 witness: the first run pruned v1 from the processed set and saved;
\* the second run still loads v1's error entry.
C21_Witness ==
    /\ store.phase = "loaded"
    /\ store.runs = 2
    /\ store.saved.taken
    /\ "v1" \in DOMAIN store.prev.file[1].processed_timestamps
    /\ "v1" \in DOMAIN store.prev.file[1].video_errors
    /\ "v1" \notin store.prev.result.processed_ids
    /\ "v1" \in DOMAIN store.loaded.result.video_errors

\* The file of the last load holds only the legacy list.
LegacyOnly(file) ==
    /\ file.kind = "json"
    /\ file.processed_timestamps = EmptyMap
    /\ file.processed_video_ids # {}

\* C22: loading a file with only the legacy list processed_video_ids gives
\* the ids of that list as the live ids, each stamped with the time of the
\* load, for every max_age_days.
C22_LegacyListMigrates ==
    (store.runs > 0 /\ LegacyOnly(store.loaded.file[1]))
        => LET r == store.loaded.result
           IN  /\ r.processed_ids = store.loaded.file[1].processed_video_ids
               /\ \A vid \in r.processed_ids :
                    r.processed_timestamps[vid] = store.loaded.at

\* The part of C22 that holds: the migration for max_age_days >= 1, and
\* that a load, a save of what was loaded and a second load at the same
\* time give the same live ids and timestamps.
C22_MigratesForPositiveAge ==
    /\ (store.runs > 0 /\ LegacyOnly(store.loaded.file[1])
            /\ store.loaded.max_age_days >= 1)
        => LET r == store.loaded.result
           IN  /\ r.processed_ids = store.loaded.file[1].processed_video_ids
               /\ \A vid \in r.processed_ids :
                    r.processed_timestamps[vid] = store.loaded.at
    /\ (/\ store.phase = "loaded"
        /\ store.runs >= 2
        /\ store.saved.taken
        /\ ~store.saved.touched
        /\ store.saved.at = store.prev.at
        /\ store.loaded.at = store.prev.at
        /\ LegacyOnly(store.prev.file[1]))
        => /\ store.loaded.result.processed_ids = store.prev.result.processed_ids
           /\ store.loaded.result.processed_timestamps
                = store.prev.result.processed_timestamps

\* The timestamp save_state wrote for an id of the saved set.
SavedStampOf(vid) ==
    IF vid \in DOMAIN store.saved.processed_timestamps
    THEN store.saved.processed_timestamps[vid]
    ELSE store.saved.at

C36_TimestampNeverChanges ==
    [][/\ (store.phase = "loaded" /\ store'.phase = "start" /\ store'.saved.taken)
            => /\ DOMAIN store'.file.processed_timestamps
                    = (DOMAIN store.processed_timestamps) \cup store.processed_ids
               /\ \A vid \in DOMAIN store'.file.processed_timestamps :
                    store'.file.processed_timestamps[vid]
                        = IF vid \in DOMAIN store.processed_timestamps
                          THEN store.processed_timestamps[vid]
                          ELSE store'.saved.at
               /\ store.file.kind = "json"
                    => \A vid \in store.loaded.result.processed_ids
                                    \cap DOMAIN store.file.processed_timestamps :
                         store'.file.processed_timestamps[vid]
                             = store.file.processed_timestamps[vid]
       /\ (store.phase = "start" /\ store'.phase = "loaded" /\ store.file.kind = "json")
            => \A vid \in DOMAIN store.file.processed_timestamps :
                 LET ts == store.file.processed_timestamps[vid]
                     expired == store'.now >= ts + store'.max_age_days * 86400
                 IN  /\ expired <=> vid \notin store'.processed_ids
                     /\ ~expired => store'.processed_timestamps[vid] = ts
       /\ (store.phase = "loaded" /\ store'.phase = "loaded")
            => \A vid \in DOMAIN store.processed_timestamps :
                 /\ vid \in DOMAIN store'.processed_timestamps
                 /\ store'.processed_timestamps[vid] = store.processed_timestamps[vid]
       /\ store'.phase # "start" => store'.file = store.file
      ]_vars

\* C36 witness: v1 was first stored by the first run, at the first clock
\* value; the second run saved one second later and v1 still has the
\* timestamp of the first save.
C36_Witness ==
    /\ store.phase = "start"
    /\ store.runs = 2
    /\ store.saved.taken
    /\ store.saved.at = FirstClock + 1
    /\ "v1" \notin DOMAIN store.prev.file[1].processed_timestamps
    /\ "v1" \notin store.prev.file[1].processed_video_ids
    /\ "v1" \in store.loaded.result.processed_ids
    /\ store.file.processed_timestamps["v1"] = FirstClock

\* C24: whenever the state file is missing, unparsable or of the wrong
\* shape, load_state returns an empty live-id set, an empty error map and an
\* empty timestamp map.
C24_ReadFailureGivesEmpty ==
    (store.runs > 0
        /\ (store.loaded.file[1].kind # "json"
              \/ store.loaded.file[1].errors_shape # "map"))
        => /\ store.loaded.result.processed_ids = {}
           /\ store.loaded.result.processed_timestamps = <<>>
           /\ store.loaded.result.video_errors = <<>>
           /\ store.loaded.result.errors_shape = "map"

\* The part of C24 that holds: content that makes load_state raise gives the
\* three empty collections.
C24_RaisingContentGivesEmpty ==
    (store.runs > 0 /\ store.loaded.file[1].kind # "json")
        => /\ store.loaded.result.processed_ids = {}
           /\ store.loaded.result.processed_timestamps = <<>>
           /\ store.loaded.result.video_errors = <<>>
           /\ store.loaded.result.errors_shape = "map"

\* ================================================================ part 6
\* fetch_transcript_any_lang(video_id, ...): the transcript resolution chain.

\* The exceptions main records as a video's error.
TerminalErrors == {"TranscriptsDisabled", "NoTranscriptFound", "CouldNotRetrieveTranscript"}

\* What api.fetch does: it returns snippets that join to a non-empty text
\* ("text"), snippets that are all blank ("blank_text"), no snippets
\* ("empty_snippets"), or it raises IpBlocked, one of the terminal errors
\* or some other exception ("Other").
FetchOutcomes ==
    {"text", "blank_text", "empty_snippets", "IpBlocked", "Other"} \cup TerminalErrors

\* What _fetch_transcript_via_ytdlp returns: a transcript or None (it
\* catches every exception).
YtdlpOutcomes == {"text", "nothing"}

\* The chain as main calls it for one survivor, in the dry-run list
\* (dryrun) or in the processing loop; caller and video_errors are main's
\* side: what it did with a raised error, and its error map.
ChainStart(video_id, dryrun) ==
    [phase |-> "A", video_id |-> video_id, invoked |-> <<>>, got |-> <<>>,
     reasons |-> <<>>, ret |-> "pending", source |-> "none", raised |-> "none",
     exit_code |-> 0, dryrun |-> dryrun, caller |-> "waiting",
     video_errors |-> EmptyMap]

InitChain ==
    /\ QUOTA_EXHAUSTED = FALSE
    /\ pc = "idle"
    /\ what = <<>>
    /\ max_attempts = 0
    /\ attempt = 0
    /\ delay = 0
    /\ result = "pending"
    /\ calls = 0
    /\ slept = <<>>
    /\ last = NoOutcome
    /\ n503 = 0
    /\ nExc = 0
    /\ acq = Parked
    /\ shorts = Parked
    /\ flt = Parked
    /\ store = Parked
    /\ \E video_id \in VideoIds, dryrun \in BOOLEAN :
         chain = ChainStart(video_id, dryrun)
    /\ run = Parked
    /\ pl = Parked

\* The chain with this stage done: the stage and what it gave are noted.
Tried(stage, outcome) ==
    [chain EXCEPT !.invoked = Append(@, stage), !.got = Append(@, outcome)]

\* `return {"text": ...}` from a stage.
ReturnText(c, stage) ==
    [c EXCEPT !.phase = "returned", !.ret = "text", !.source = stage]

\* sys.exit(1) in the IpBlocked handlers.
Exit(c) == [c EXCEPT !.phase = "exited", !.exit_code = 1]

\* Stage A where a terminal error leaves the chain instead of being noted.
StageA_RaisesTerminal(outcome) ==
    /\ chain.phase = "A"
    /\ LET c == Tried("A", outcome)
       IN  chain' =
             IF outcome = "text" THEN ReturnText(c, "A")
             ELSE IF outcome = "IpBlocked" THEN Exit(c)
             ELSE IF outcome \in TerminalErrors
             THEN [c EXCEPT !.phase = "raised", !.raised = outcome]
             ELSE IF outcome = "empty_snippets"
             THEN [c EXCEPT !.phase = "B",
                            !.reasons = Append(@, <<"A:empty_snippets">>)]
             ELSE IF outcome = "blank_text" THEN [c EXCEPT !.phase = "B"]
             ELSE [c EXCEPT !.phase = "B",
                            !.reasons = Append(@, <<"A:fetch_preferred", outcome>>)]
    /\ UNCHANGED <<QUOTA_EXHAUSTED, execVars, acq, shorts, flt, store, run, pl>>

\* Stage A (l.760-782): api.fetch with the preferred languages.
StageA(outcome) ==
    /\ chain.phase = "A"
    /\ LET c == Tried("A", outcome)
       IN  chain' =
             IF outcome = "text" THEN ReturnText(c, "A")
             ELSE IF outcome = "IpBlocked" THEN Exit(c)
             ELSE IF outcome = "empty_snippets"
             THEN [c EXCEPT !.phase = "B",
                            !.reasons = Append(@, <<"A:empty_snippets">>)]
             ELSE IF outcome = "blank_text" THEN [c EXCEPT !.phase = "B"]
             ELSE [c EXCEPT !.phase = "B",
                            !.reasons = Append(@, <<"A:fetch_preferred", outcome>>)]
    /\ UNCHANGED <<QUOTA_EXHAUSTED, execVars, acq, shorts, flt, store, run, pl>>

\* Stage B where empty snippets end the chain with None.
StageB_StopsOnEmpty(outcome) ==
    /\ chain.phase = "B"
    /\ LET c == Tried("B", outcome)
       IN  chain' =
             IF outcome = "text" THEN ReturnText(c, "B")
             ELSE IF outcome = "IpBlocked" THEN Exit(c)
             ELSE IF outcome \in TerminalErrors
             THEN [c EXCEPT !.phase = "raised", !.raised = outcome]
             ELSE IF outcome = "empty_snippets"
             THEN [c EXCEPT !.phase = "returned", !.ret = "null"]
             ELSE IF outcome = "blank_text" THEN [c EXCEPT !.phase = "C"]
             ELSE [c EXCEPT !.phase = "C",
                            !.reasons = Append(@, <<"B:fetch_any", outcome>>)]
    /\ UNCHANGED <<QUOTA_EXHAUSTED, execVars, acq, shorts, flt, store, run, pl>>

\* Stage B where a terminal error is noted as a reason like any other
\* exception.
StageB_SwallowsTerminal(outcome) ==
    /\ chain.phase = "B"
    /\ LET c == Tried("B", outcome)
       IN  chain' =
             IF outcome = "text" THEN ReturnText(c, "B")
             ELSE IF outcome = "IpBlocked" THEN Exit(c)
             ELSE IF outcome = "empty_snippets"
             THEN [c EXCEPT !.phase = "C",
                            !.reasons = Append(@, <<"B:empty_snippets">>)]
             ELSE IF outcome = "blank_text" THEN [c EXCEPT !.phase = "C"]
             ELSE [c EXCEPT !.phase = "C",
                            !.reasons = Append(@, <<"B:fetch_any", outcome>>)]
    /\ UNCHANGED <<QUOTA_EXHAUSTED, execVars, acq, shorts, flt, store, run, pl>>

\* Stage B (l.784-811): api.fetch with the default language selection.
StageB(outcome) ==
    /\ chain.phase = "B"
    /\ LET c == Tried("B", outcome)
       IN  chain' =
             IF outcome = "text" THEN ReturnText(c, "B")
             ELSE IF outcome = "IpBlocked" THEN Exit(c)
             ELSE IF outcome \in TerminalErrors
             THEN [c EXCEPT !.phase = "raised", !.raised = outcome]
             ELSE IF outcome = "empty_snippets"
             THEN [c EXCEPT !.phase = "C",
                            !.reasons = Append(@, <<"B:empty_snippets">>)]
             ELSE IF outcome = "blank_text" THEN [c EXCEPT !.phase = "C"]
             ELSE [c EXCEPT !.phase = "C",
                            !.reasons = Append(@, <<"B:fetch_any", outcome>>)]
    /\ UNCHANGED <<QUOTA_EXHAUSTED, execVars, acq, shorts, flt, store, run, pl>>

\* Stage C (l.813-824): the yt-dlp fallback, then `return None`.
StageC(outcome) ==
    /\ chain.phase = "C"
    /\ LET c == Tried("C", outcome)
       IN  chain' = IF outcome = "text"
                    THEN ReturnText(c, "C")
                    ELSE [c EXCEPT !.phase = "returned", !.ret = "null"]
    /\ UNCHANGED <<QUOTA_EXHAUSTED, execVars, acq, shorts, flt, store, run, pl>>

\* The except clause of the processing loop (l.1139-1145): the error's name
\* is stored under the video's id and the loop goes on.
LoopRecordsError ==
    /\ chain.phase = "raised"
    /\ chain.caller = "waiting"
    /\ ~chain.dryrun
    /\ chain' = [chain EXCEPT !.caller = "recorded",
                              !.video_errors =
                                  [vid \in {chain.video_id} |-> chain.raised]]
    /\ UNCHANGED <<QUOTA_EXHAUSTED, execVars, acq, shorts, flt, store, run, pl>>

\* The except clause of the dry-run list (l.1119-1121): the error's name is
\* printed.
DryRunPrintsError ==
    /\ chain.phase = "raised"
    /\ chain.caller = "waiting"
    /\ chain.dryrun
    /\ chain' = [chain EXCEPT !.caller = "printed"]
    /\ UNCHANGED <<QUOTA_EXHAUSTED, execVars, acq, shorts, flt, store, run, pl>>

NextChain ==
    \/ \E outcome \in FetchOutcomes : StageA(outcome)
    \/ \E outcome \in FetchOutcomes : StageB(outcome)
    \/ \E outcome \in YtdlpOutcomes : StageC(outcome)
    \/ LoopRecordsError
    \/ DryRunPrintsError

SpecChain == InitChain /\ [][NextChain]_vars

\* The ways one call of fetch_transcript_any_lang can end, for its callers:
\* a transcript, None, one of the terminal errors raised, or the exit of
\* the process.
ChainResults ==
    [kind : {"text", "null", "blocked"}, error : {"none"}]
        \cup [kind : {"terminal"}, error : TerminalErrors]

\* The chain of this part ends in one of ChainResults.
ChainResultsSound ==
    /\ chain.phase = "returned"
        => [kind |-> chain.ret, error |-> "none"] \in ChainResults
    /\ chain.phase = "raised"
        => [kind |-> "terminal", error |-> chain.raised] \in ChainResults
    /\ chain.phase = "exited"
        => [kind |-> "blocked", error |-> "none"] \in ChainResults
    /\ chain.phase \in {"A", "B", "C", "returned", "raised", "exited"}

\* ---------------------------------------------------------------- claims

C26_WhatIsSwallowed ==
    /\ (Len(chain.got) >= 2
          /\ chain.got[2] \in {"TranscriptsDisabled", "NoTranscriptFound",
                               "CouldNotRetrieveTranscript"})
         => /\ chain.phase = "raised"
            /\ chain.raised = chain.got[2]
            /\ chain.invoked = <<"A", "B">>
    /\ (Len(chain.got) >= 2 /\ chain.got[2] = "Other")
         => /\ chain.phase \in {"C", "returned"}
            /\ \E k \in 1..Len(chain.reasons) :
                 chain.reasons[k] = <<"B:fetch_any", "Other">>
            /\ chain.phase = "returned" => chain.invoked = <<"A", "B", "C">>
    /\ (Len(chain.got) >= 1
          /\ chain.got[1] \in {"TranscriptsDisabled", "NoTranscriptFound",
                               "CouldNotRetrieveTranscript", "Other"})
         => /\ \E k \in 1..Len(chain.reasons) :
                 chain.reasons[k] = <<"A:fetch_preferred", chain.got[1]>>
            /\ chain.phase = "B" \/ Len(chain.invoked) >= 2

\* C26 witness: stage A raised TranscriptsDisabled, which was noted; stage B
\* raised it again and the chain raised it to the caller.
C26_Witness ==
    /\ chain.got = <<"TranscriptsDisabled", "TranscriptsDisabled">>
    /\ chain.reasons = << <<"A:fetch_preferred", "TranscriptsDisabled">> >>
    /\ chain.phase = "raised"
    /\ chain.raised = "TranscriptsDisabled"

\* C38 as stated: when stage B raises a terminal error, stage C is not
\* invoked and main has the item in the error map once it has handled the
\* error; stage C is invoked only after stage B gave no text or raised
\* another exception.
C38_Original ==
    /\ (Len(chain.got) >= 2 /\ chain.got[2] \in TerminalErrors)
         => /\ chain.invoked = <<"A", "B">>
            /\ chain.caller # "waiting"
                 => /\ chain.video_id \in DOMAIN chain.video_errors
                    /\ chain.video_errors[chain.video_id] = chain.got[2]
    /\ Len(chain.invoked) = 3
         => /\ chain.invoked[3] = "C"
            /\ chain.got[2] \in {"empty_snippets", "blank_text", "Other"}

\* C38 amended: when stage B raises a terminal error, stage C is not
\* invoked; the processing loop then has the item in its error map under
\* the error's name, while the dry-run list only prints the error and
\* records nothing; stage C is invoked only after stage B gave no text or
\* raised another exception.
C38_Amended ==
    /\ (Len(chain.got) >= 2 /\ chain.got[2] \in TerminalErrors)
         => /\ chain.invoked = <<"A", "B">>
            /\ chain.phase = "raised"
            /\ chain.caller # "waiting"
                 => IF chain.dryrun
                    THEN chain.caller = "printed" /\ chain.video_errors = EmptyMap
                    ELSE /\ chain.caller = "recorded"
                         /\ chain.video_id \in DOMAIN chain.video_errors
                         /\ chain.video_errors[chain.video_id] = chain.got[2]
    /\ Len(chain.invoked) = 3
         => /\ chain.invoked[3] = "C"
            /\ chain.got[2] \in {"empty_snippets", "blank_text", "Other"}
    /\ chain.caller # "waiting"
         => (Len(chain.got) = 2 /\ chain.got[2] \in TerminalErrors)

\* C38 witness: stage A raised some other exception, stage B raised
\* NoTranscriptFound, and the processing loop stored it for the video with
\* stage C never invoked.
C38_Witness ==
    /\ chain.got = <<"Other", "NoTranscriptFound">>
    /\ chain.invoked = <<"A", "B">>
    /\ ~chain.dryrun
    /\ chain.caller = "recorded"
    /\ chain.video_errors[chain.video_id] = "NoTranscriptFound"

\* ================================================================ part 7
\* Successive runs of main over one state file: load_state, the dedup
\* filter, the sort and the cap, the loop over the survivors with the
\* transcript chain (through ChainResults) and the summary, save_state.  The
\* remote data set is the candidate list acquisition and exclude_shorts
\* deliver; it is the same in every run, as a playlist or a list of --urls
\* is (urls tells that the run has --urls, tried with the largest cap).  No
\* watch history is configured.

\* The remote data sets: some of the videos, each listed once, in any
\* order, with any publish times.
RemoteLists ==
    {xs \in UNION {[1..n -> FilterItems] : n \in 0..Cardinality(VideoIds)} :
        \A i, j \in 1..Len(xs) : i # j => xs[i].videoId # xs[j].videoId}

\* No state file.
NoStateFile ==
    [kind |-> "missing", processed_timestamps |-> EmptyMap,
     processed_video_ids |-> {}, video_errors |-> EmptyMap, errors_shape |-> "map"]

\* A state file earlier runs left: v1 was stored MaxAgeDays days minus one
\* second before the first clock value.
OldStateFile ==
    [kind |-> "json",
     processed_timestamps |->
         [vid \in {"v1"} |-> FirstClock - MaxAgeDays * SecondsPerDay + 1],
     processed_video_ids |-> {}, video_errors |-> EmptyMap, errors_shape |-> "map"]

\* The state file before the first run.
RunStartFiles == {NoStateFile, OldStateFile}

\* "normal", or with --dryrun, or with --skip-state.
RunModes == {"normal", "dryrun", "skip_state"}

\* What happens after the chain returned a text: the summary is written
\* ("saved") or summarize/save_markdown raises ("failed").
SummaryOutcomes == {"saved", "failed"}

\* m with m[vid] = value.
Override(m, vid, value) ==
    [v \in (DOMAIN m) \cup {vid} |-> IF v = vid THEN value ELSE m[v]]

\* The terminal errors among the events of a run, as vid -> error (the last
\* one of a vid wins, as in video_errors).
RECURSIVE TerminalsOf(_, _)
TerminalsOf(events, m) ==
    IF events = <<>>
    THEN m
    ELSE TerminalsOf(Tail(events),
                     IF Head(events).kind = "terminal"
                     THEN Override(m, Head(events).vid, Head(events).error)
                     ELSE m)

\* The ids of the items of the run that ended with an event of this kind.
VidsOf(events, kind) ==
    {events[k].vid : k \in {j \in 1..Len(events) : events[j].kind = kind}}

\* The times of the runs: the first clock value and MaxAgeDays days later.
RunClocks == {FirstClock, FirstClock + MaxAgeDays * SecondsPerDay}

InitRun ==
    /\ QUOTA_EXHAUSTED = FALSE
    /\ pc = "idle"
    /\ what = <<>>
    /\ max_attempts = 0
    /\ attempt = 0
    /\ delay = 0
    /\ result = "pending"
    /\ calls = 0
    /\ slept = <<>>
    /\ last = NoOutcome
    /\ n503 = 0
    /\ nExc = 0
    /\ acq = Parked
    /\ shorts = Parked
    /\ flt = Parked
    /\ store = Parked
    /\ chain = Parked
    /\ pl = Parked
    /\ \E remote \in RemoteLists, max_age_days \in {0, MaxAgeDays},
          cap \in 0..MaxCap, mark \in BOOLEAN, file \in RunStartFiles,
          urls \in BOOLEAN :
         /\ urls => cap = MaxCap
         /\ run = [phase |-> "idle", remote |-> remote, urls |-> urls,
                   max_age_days |-> max_age_days, yt_max_videos |-> cap,
                   mark_on_no_transcript |-> mark,
                   file |-> file, start_file |-> file,
                   now |-> 0, runs |-> 0, mode |-> "normal",
                   processed_ids |-> {}, video_errors |-> EmptyMap,
                   processed_timestamps |-> EmptyMap,
                   candidates |-> <<>>, idx |-> 0, events |-> <<>>,
                   save_called |-> FALSE, exit_code |-> 0,
                   owed_all |-> EmptyMap, owed_done |-> EmptyMap,
                   prev_mode |-> "none", prev_phase |-> "none",
                   prev_clean |-> FALSE, stored_done |-> {}]

\* Every item the finished run handed to the chain ended recorded: marked
\* processed or stored as an error.
AllRecorded(events) ==
    \A k \in 1..Len(events) :
        \/ events[k].kind = "terminal"
        \/ events[k].vid \in run.processed_ids

\* A run starts (l.943-1091): the state is loaded at time current_time, the
\* remote candidates are filtered against it, sorted and capped.
StartRun(mode, current_time) ==
    /\ run.phase \in {"idle", "done", "exited"}
    /\ run.runs < MaxRuns
    /\ current_time >= run.now
    /\ LET r == load_state(run.file, run.max_age_days, current_time)
           filtered == Unseen(run.remote, r.processed_ids,
                              DOMAIN r.video_errors, {})
           final == GlobalCap(SortNewestFirst(<<>>, filtered),
                              run.yt_max_videos, run.urls)
       IN  run' = [run EXCEPT !.phase = "loop", !.mode = mode,
                              !.now = current_time, !.runs = @ + 1,
                              !.start_file = run.file,
                              !.processed_ids = r.processed_ids,
                              !.video_errors = r.video_errors,
                              !.processed_timestamps = r.processed_timestamps,
                              !.candidates = final, !.idx = 0, !.events = <<>>,
                              !.save_called = FALSE, !.exit_code = 0,
                              !.prev_mode = IF run.runs = 0 THEN "none" ELSE run.mode,
                              !.prev_phase = IF run.runs = 0 THEN "none" ELSE run.phase,
                              !.prev_clean = run.runs > 0 /\ AllRecorded(run.events)]
    /\ UNCHANGED <<QUOTA_EXHAUSTED, execVars, acq, shorts, flt, store, chain, pl>>

\* What one item of the loop leaves in the run's records.
Event(vid, kind, error) == [vid |-> vid, kind |-> kind, error |-> error]

\* One item where IpBlocked is recorded like a terminal error and the loop
\* goes on.
RunItem_BlockedContinues(r, summary) ==
    /\ run.phase = "loop"
    /\ run.idx < Len(run.candidates)
    /\ LET vid == run.candidates[run.idx + 1].videoId
           marks == run.mode = "normal"
       IN  run' =
             IF r.kind = "blocked"
             THEN [run EXCEPT !.idx = @ + 1,
                              !.events = Append(@, Event(vid, "blocked", "none"))]
             ELSE IF run.mode = "dryrun"
             THEN [run EXCEPT !.idx = @ + 1,
                              !.events = Append(@, Event(vid, "dry", "none"))]
             ELSE IF r.kind = "terminal"
             THEN [run EXCEPT !.idx = @ + 1,
                              !.video_errors = Override(@, vid, r.error),
                              !.events = Append(@, Event(vid, "terminal", r.error))]
             ELSE IF r.kind = "null"
             THEN [run EXCEPT !.idx = @ + 1,
                              !.processed_ids =
                                  IF run.mark_on_no_transcript /\ marks
                                  THEN @ \cup {vid} ELSE @,
                              !.events = Append(@, Event(vid, "null", "none"))]
             ELSE IF summary = "saved"
             THEN [run EXCEPT !.idx = @ + 1,
                              !.processed_ids = IF marks THEN @ \cup {vid} ELSE @,
                              !.events = Append(@, Event(vid, "saved", "none"))]
             ELSE [run EXCEPT !.idx = @ + 1,
                              !.events = Append(@, Event(vid, "failed", "none"))]
    /\ UNCHANGED <<QUOTA_EXHAUSTED, execVars, acq, shorts, flt, store, chain, pl>>

\* One item of the dry-run list (l.1101-1121) or of the processing loop
\* (l.1127-1165).  r is how fetch_transcript_any_lang ended; the exit of the
\* process in the chain ends the run there.
RunItem(r, summary) ==
    /\ run.phase = "loop"
    /\ run.idx < Len(run.candidates)
    /\ LET vid == run.candidates[run.idx + 1].videoId
           marks == run.mode = "normal"
       IN  run' =
             IF r.kind = "blocked"
             THEN [run EXCEPT !.phase = "exited", !.exit_code = 1,
                              !.idx = @ + 1,
                              !.events = Append(@, Event(vid, "blocked", "none")),
                              !.owed_all =
                                  IF marks THEN TerminalsOf(run.events, @) ELSE @]
             ELSE IF run.mode = "dryrun"
             THEN [run EXCEPT !.idx = @ + 1,
                              !.events = Append(@, Event(vid, "dry", "none"))]
             ELSE IF r.kind = "terminal"
             THEN [run EXCEPT !.idx = @ + 1,
                              !.video_errors = Override(@, vid, r.error),
                              !.events = Append(@, Event(vid, "terminal", r.error))]
             ELSE IF r.kind = "null"
             THEN [run EXCEPT !.idx = @ + 1,
                              !.processed_ids =
                                  IF run.mark_on_no_transcript /\ marks
                                  THEN @ \cup {vid} ELSE @,
                              !.events = Append(@, Event(vid, "null", "none"))]
             ELSE IF summary = "saved"
             THEN [run EXCEPT !.idx = @ + 1,
                              !.processed_ids = IF marks THEN @ \cup {vid} ELSE @,
                              !.events = Append(@, Event(vid, "saved", "none"))]
             ELSE [run EXCEPT !.idx = @ + 1,
                              !.events = Append(@, Event(vid, "failed", "none"))]
    /\ UNCHANGED <<QUOTA_EXHAUSTED, execVars, acq, shorts, flt, store, chain, pl>>

\* The end of a run where nothing is saved.
EndRun_NoSave(current_time) ==
    /\ run.phase = "loop"
    /\ run.idx >= Len(run.candidates)
    /\ current_time >= run.now
    /\ run' = [run EXCEPT !.phase = "done", !.now = current_time]
    /\ UNCHANGED <<QUOTA_EXHAUSTED, execVars, acq, shorts, flt, store, chain, pl>>

\* The end of a run where only a dry run saves nothing.
EndRun_SavesInSkipState(current_time) ==
    /\ run.phase = "loop"
    /\ run.idx >= Len(run.candidates)
    /\ current_time >= run.now
    /\ LET saves == run.mode # "dryrun"
       IN  run' = [run EXCEPT
                     !.phase = "done",
                     !.now = current_time,
                     !.save_called = saves,
                     !.file = IF saves
                              THEN save_state(run.processed_ids, run.video_errors,
                                              "map", run.processed_timestamps,
                                              current_time)
                              ELSE @]
    /\ UNCHANGED <<QUOTA_EXHAUSTED, execVars, acq, shorts, flt, store, chain, pl>>

\* The end of a run (l.1093-1097, l.1122-1123, l.1167-1168): no survivor or
\* the loop is over; save_state at time current_time unless the run is a dry
\* run or has --skip-state.
EndRun(current_time) ==
    /\ run.phase = "loop"
    /\ run.idx >= Len(run.candidates)
    /\ current_time >= run.now
    /\ LET saves == run.mode = "normal"
           stamps == SavedStamps(run.processed_ids, run.processed_timestamps,
                                 current_time)
       IN  run' = [run EXCEPT
                     !.phase = "done",
                     !.now = current_time,
                     !.save_called = saves,
                     !.file = IF saves
                              THEN save_state(run.processed_ids, run.video_errors,
                                              "map", run.processed_timestamps,
                                              current_time)
                              ELSE @,
                     !.processed_timestamps = IF saves THEN stamps ELSE @,
                     !.owed_all = IF saves THEN TerminalsOf(run.events, @) ELSE @,
                     !.owed_done = IF saves THEN TerminalsOf(run.events, @) ELSE @,
                     !.stored_done =
                         IF saves THEN @ \cup VidsOf(run.events, "saved") ELSE @]
    /\ UNCHANGED <<QUOTA_EXHAUSTED, execVars, acq, shorts, flt, store, chain, pl>>

NextRun ==
    \/ \E mode \in RunModes, current_time \in RunClocks : StartRun(mode, current_time)
    \/ \E r \in ChainResults, summary \in SummaryOutcomes : RunItem(r, summary)
    \/ \E current_time \in RunClocks : EndRun(current_time)

SpecRun == InitRun /\ [][NextRun]_vars

\* ---------------------------------------------------------------- claims

\* The step hands an item to the chain and records an event of this kind.
Recorded(kind) ==
    /\ Len(run'.events) = Len(run.events) + 1
    /\ run'.events[Len(run'.events)].kind = kind

\* C27: IpBlocked for any item ends the whole run at once with exit code 1:
\* no later item is resolved, save_state is not called and the state file
\* stays as it was when the run started, whatever the run had accumulated.
C27_BlockedEndsRun ==
    /\ [](run.phase = "exited"
            => /\ run.exit_code = 1
               /\ ~run.save_called
               /\ run.file = run.start_file
               /\ Len(run.events) >= 1
               /\ run.events[Len(run.events)].kind = "blocked")
    /\ [][/\ Recorded("blocked")
              => /\ run'.phase = "exited"
                 /\ run'.exit_code = 1
                 /\ run'.file = run.file
          /\ run.phase = "exited" => run'.runs = run.runs + 1
         ]_vars

\* C27 witness: the run recorded an error for its first item, the second
\* item was blocked, and there is still no state file.
C27_Witness ==
    /\ run.phase = "exited"
    /\ Len(run.events) = 2
    /\ run.events[1].kind = "terminal"
    /\ DOMAIN run.video_errors # {}
    /\ run.file.kind = "missing"

C29_SummaryFailureDoesNotAbort ==
    /\ [][Recorded("failed")
              => /\ run'.phase = "loop"
                 /\ run'.idx = run.idx + 1
                 /\ run'.processed_ids = run.processed_ids
                 /\ run'.video_errors = run.video_errors
         ]_vars
    /\ []((run.phase = "exited" /\ \E k \in 1..Len(run.events) :
                                       run.events[k].kind = "failed")
            => run.events[Len(run.events)].kind = "blocked")
    /\ []((run.phase = "done" /\ \E k \in 1..Len(run.events) :
                                     run.events[k].kind = "failed")
            => /\ Len(run.events) = Len(run.candidates)
               /\ (run.mode = "normal")
                    => (run.save_called /\ run.file.kind = "json"))

\* C29 witness: the summary of the first survivor failed, the second one
\* was saved and marked, and the state was saved.
C29_Witness ==
    /\ run.phase = "done"
    /\ run.mode = "normal"
    /\ Len(run.events) = 2
    /\ run.events[1].kind = "failed"
    /\ run.events[2].kind = "saved"
    /\ run.events[1].vid # run.events[2].vid
    /\ run.processed_ids = {run.events[2].vid}
    /\ run.save_called

\* C30: a second normal run over the same remote data and the untouched
\* state file hands no item to the chain.
C30_SecondRunProcessesNothing ==
    (run.runs >= 2 /\ run.mode = "normal" /\ run.prev_mode = "normal")
        => run.events = <<>>

\* The part of C30 that holds: with no cap (none set, or --urls), after a normal run that reached
\* its end with every item it handled recorded (marked processed or stored
\* as an error), a normal run whose load_state pruned no id of the file has
\* no survivor.
C30_NothingLeftWhenAllRecorded ==
    (/\ run.runs >= 2
     /\ run.phase = "loop"
     /\ run.mode = "normal"
     /\ run.prev_mode = "normal"
     /\ run.prev_phase = "done"
     /\ run.prev_clean
     /\ DOMAIN run.start_file.processed_timestamps
            \subseteq DOMAIN run.processed_timestamps
     /\ (run.yt_max_videos = 0 \/ run.urls))
        => run.candidates = <<>>

\* C31: a run without --dryrun and --skip-state that reaches its end leaves
\* in the state file exactly the ids load_state returned at its start, the
\* ids of the items whose summary was written and, with
\* MARK_PROCESSED_ON_NO_TRANSCRIPT only, the ids of the items whose chain
\* returned null; an item with a terminal error or a failed summary is not
\* among the ids added.
C31_PersistedIds ==
    [][/\ (run.phase # "loop" /\ run'.phase = "loop")
            => /\ run'.processed_ids =
                      load_state(run.file, run.max_age_days, run'.now).processed_ids
               /\ DOMAIN run'.processed_timestamps = run'.processed_ids
       /\ (run.phase = "loop" /\ run'.phase = "loop")
            => run'.processed_timestamps = run.processed_timestamps
       /\ (run.phase = "loop" /\ run'.phase = "done" /\ run.mode = "normal")
            => LET loaded == DOMAIN run.processed_timestamps
                   persisted == DOMAIN run'.file.processed_timestamps
               IN  /\ run'.file.kind = "json"
                   /\ persisted =
                        loaded \cup VidsOf(run.events, "saved")
                               \cup (IF run.mark_on_no_transcript
                                     THEN VidsOf(run.events, "null") ELSE {})
                   /\ (persisted \ loaded)
                        \cap (VidsOf(run.events, "terminal")
                                \cup VidsOf(run.events, "failed")) = {}
      ]_vars

\* C31 witness: the second run loaded v1, wrote the summary of v2 and saved
\* both.
C31_Witness ==
    /\ run.runs = 2
    /\ run.mode = "normal"
    /\ run.phase = "done"
    /\ DOMAIN run.start_file.processed_timestamps = {"v1"}
    /\ Len(run.events) = 1
    /\ run.events[1] = Event("v2", "saved", "none")
    /\ DOMAIN run.file.processed_timestamps = {"v1", "v2"}

\* C32: a run without --dryrun and --skip-state that has no survivor after
\* the filter, the sort and the cap calls save_state with what load_state
\* returned and ends with exit code 0: the ids load_state pruned are not in
\* the state file afterwards.
C32_ZeroSurvivorsStillSaves ==
    [][(/\ run.phase = "loop"
        /\ run.candidates = <<>>
        /\ run.mode = "normal"
        /\ run'.phase # "loop")
          => LET loaded == load_state(run.start_file, run.max_age_days, run.now)
                 pruned == (DOMAIN run.start_file.processed_timestamps)
                               \ loaded.processed_ids
             IN  /\ run'.phase = "done"
                 /\ run'.exit_code = 0
                 /\ run'.save_called
                 /\ run'.file.kind = "json"
                 /\ run'.file.processed_timestamps = loaded.processed_timestamps
                 /\ run'.file.video_errors = loaded.video_errors
                 /\ pruned \cap DOMAIN run'.file.processed_timestamps = {}
      ]_vars

\* C32 witness: the first run found v1 in the state file too old, had no
\* survivor and left a state file without v1.
C32_Witness ==
    /\ run.runs = 1
    /\ run.mode = "normal"
    /\ run.phase = "done"
    /\ run.max_age_days = MaxAgeDays
    /\ run.candidates = <<>>
    /\ run.start_file = OldStateFile
    /\ run.save_called
    /\ run.file.kind = "json"
    /\ run.file.processed_timestamps = EmptyMap

\* C33: with --dryrun and with --skip-state no step of the run writes the
\* state file or adds an id to processed_ids, whether the run has no
\* survivor, reaches its end, meets failing items or exits; with
\* --skip-state the state is loaded all the same and no survivor is an id
\* load_state returned as processed or as an error.
C33_DryRunAndSkipStateWriteNothing ==
    [][/\ (run.phase = "loop" /\ run.mode \in {"dryrun", "skip_state"})
            => /\ run'.file = run.file
               /\ ~run'.save_called
               /\ run'.phase = "loop" => run'.processed_ids = run.processed_ids
               /\ run'.phase \in {"loop", "done", "exited"}
       /\ (run'.phase = "loop" /\ run.phase # "loop" /\ run'.mode = "skip_state")
            => LET loaded == load_state(run.file, run.max_age_days, run'.now)
               IN  /\ run'.processed_ids = loaded.processed_ids
                   /\ run'.video_errors = loaded.video_errors
                   /\ run'.file = run.file
                   /\ \A k \in 1..Len(run'.candidates) :
                        run'.candidates[k].videoId \notin
                            loaded.processed_ids \cup DOMAIN loaded.video_errors
      ]_vars

\* C33 witness: after a normal run stored v1, a run with --skip-state left
\* v1 out, wrote the summary of v2 and ended with the state file and
\* processed_ids as they were.
C33_Witness ==
    /\ run.runs = 2
    /\ run.mode = "skip_state"
    /\ run.prev_mode = "normal"
    /\ run.phase = "done"
    /\ run.events = <<Event("v2", "saved", "none")>>
    /\ run.processed_ids = {"v1"}
    /\ run.file = run.start_file
    /\ DOMAIN run.file.processed_timestamps = {"v1"}
    /\ \E k \in 1..Len(run.remote) : run.remote[k].videoId = "v1"

\* C37 as stated: an item whose summary was written and stored by a normal
\* run is never a survivor of a later run, whatever the run's mode, its
\* source and the time it starts.
C37_Original ==
    run.phase = "loop"
        => \A k \in 1..Len(run.candidates) :
             run.candidates[k].videoId \notin run.stored_done

\* C37 amended: an item whose summary was written and stored by a normal
\* run is not a survivor of a later run that starts less than
\* max_age_days * 86400 seconds after the stored timestamp, whatever the
\* run's mode and source; a run that starts later than that no longer finds
\* the id in what load_state returns.
C37_Amended ==
    run.phase = "loop"
        => \A vid \in run.stored_done \cap DOMAIN run.start_file.processed_timestamps :
             LET ts == run.start_file.processed_timestamps[vid]
                 fresh == run.now < ts + run.max_age_days * 86400
             IN  /\ fresh => \A k \in 1..Len(run.candidates) :
                               run.candidates[k].videoId # vid
                 /\ ~fresh => vid \notin DOMAIN run.processed_timestamps

\* C37 witness: the first run stored v1 with its summary; the second run,
\* with --urls, started before max_age_days had passed over a list that has
\* v1 and handled only v2.
C37_Witness ==
    /\ run.runs = 2
    /\ run.urls
    /\ run.phase = "done"
    /\ run.stored_done = {"v1"}
    /\ run.max_age_days = MaxAgeDays
    /\ "v1" \in DOMAIN run.start_file.processed_timestamps
    /\ \E k \in 1..Len(run.remote) : run.remote[k].videoId = "v1"
    /\ Len(run.events) = 1
    /\ run.events[1].vid = "v2"
    /\ run.mode # "normal"

\* ================================================================ part 8
\* main with --playlist, and mark_playlist_existing.py, over one state file
\* and one remote world: resolve_playlist_id, list_videos_from_playlist_id,
\* then main's filter (with the save of l.1093-1097 when nothing is left) or
\* the marking loop and its save.  The videos of the playlist are 1..size in
\* listing order.  Shorts exclusion, the watch history and the cap are off.

\* maxResults of the playlistItems.list call (l.577): the one page read.
PageSize == 50

\* Most videos a playlist has beyond one page.
MaxOverPage == 1

\* Most pages of the listing of the user's own playlists.
MaxMinePages == 2

\* The sizes of the playlist.
PlaylistSizes == {0, 1} \cup {PageSize + k : k \in 0..MaxOverPage}

\* The query and what it names.  shape: "empty", "id" (looks_like_playlist_id)
\* or "title".  at: "id", a playlist has this id; "mine", one of the user's
\* playlists has this title, on page `page` of their listing; "public", the
\* search gives a playlist with this title; "near", the search gives only
\* other titles; "nowhere", nothing.
PlaylistWorlds ==
    [shape : {"empty"}, at : {"nowhere"}, page : {1}]
        \cup [shape : {"id"}, at : {"id", "nowhere"}, page : {1}]
        \cup [shape : {"title"}, at : {"mine"}, page : 1..MaxMinePages]
        \cup [shape : {"title"}, at : {"public", "near", "nowhere"}, page : {1}]

\* The query names an existing playlist.
Exists(world) == world.at \in {"id", "mine", "public"}

\* A state file earlier runs left: video 1 stored a second before the first
\* clock value, and an error stored for video 2.
PlOldStateFile ==
    [kind |-> "json",
     processed_timestamps |-> [vid \in {1} |-> FirstClock - 1],
     processed_video_ids |-> {},
     video_errors |-> [vid \in {2} |-> "NoTranscriptFound"],
     errors_shape |-> "map"]

\* The state file before the first run.
PlStartFiles == {NoStateFile, PlOldStateFile}

\* The two programs.
Programs == {"summarizer", "marker"}

InitPlaylist ==
    /\ QUOTA_EXHAUSTED = FALSE
    /\ pc = "idle"
    /\ what = <<>>
    /\ max_attempts = 0
    /\ attempt = 0
    /\ delay = 0
    /\ result = "pending"
    /\ calls = 0
    /\ slept = <<>>
    /\ last = NoOutcome
    /\ n503 = 0
    /\ nExc = 0
    /\ acq = Parked
    /\ shorts = Parked
    /\ flt = Parked
    /\ store = Parked
    /\ chain = Parked
    /\ run = Parked
    /\ \E world \in PlaylistWorlds, size \in PlaylistSizes,
          max_age_days \in {0, MaxAgeDays}, file \in PlStartFiles :
         /\ ~Exists(world) => size = 0
         /\ pl = [phase |-> "idle", prog |-> "summarizer", world |-> world,
                  size |-> size, max_age_days |-> max_age_days,
                  file |-> file, start_file |-> file, now |-> 0, runs |-> 0,
                  processed_ids |-> {}, video_errors |-> EmptyMap,
                  processed_timestamps |-> EmptyMap, loaded_ids |-> {},
                  page |-> 1, listed |-> 0, got_items |-> FALSE,
                  survivors |-> {}, saved |-> FALSE, exit_code |-> 0,
                  other_failure |-> FALSE,
                  prev_prog |-> "none", prev_phase |-> "none"]

\* The call ended without a response for another reason than the quota: it
\* raised, or it returned None with the latch clear (not found, or the
\* retry loop ran out).
OtherFailure(out) == out.res = "raised" \/ (out.res = "null" /\ ~out.latch)

\* p with the executor call's outcome noted.
Noted(p, out) == [p EXCEPT !.other_failure = @ \/ OtherFailure(out)]

\* An exception no handler catches ends the process with exit code 1.
Crash(p) == [p EXCEPT !.phase = "crashed", !.exit_code = 1]

\* resolve_playlist_id returned None: sys.exit(2) in main (l.958-960),
\* sys.exit(1) in mark_playlist_existing.py (l.48-50 there).
Unresolved(p) ==
    [p EXCEPT !.phase = "exited",
              !.exit_code = IF p.prog = "summarizer" THEN 2 ELSE 1]

\* A run of one of the programs starts: a new process (the latch is clear)
\* loads the state (l.944; l.38 of mark_playlist_existing.py).  The marker's
\* query is the title "yt-summariser".
PlStart(prog) ==
    /\ pl.phase \in {"idle", "done", "exited", "crashed"}
    /\ pl.runs < MaxRuns
    /\ prog = "marker" => pl.world.shape = "title"
    /\ QUOTA_EXHAUSTED' = FALSE
    /\ LET current_time == FirstClock + pl.runs
           r == load_state(pl.file, pl.max_age_days, current_time)
       IN  pl' = [pl EXCEPT !.phase = "resolve", !.prog = prog,
                            !.now = current_time, !.runs = @ + 1,
                            !.start_file = pl.file,
                            !.processed_ids = r.processed_ids,
                            !.video_errors = r.video_errors,
                            !.processed_timestamps = r.processed_timestamps,
                            !.loaded_ids = r.processed_ids,
                            !.page = 1, !.listed = 0, !.got_items = FALSE,
                            !.survivors = {}, !.saved = FALSE, !.exit_code = 0,
                            !.other_failure = FALSE,
                            !.prev_prog = IF pl.runs = 0 THEN "none" ELSE pl.prog,
                            !.prev_phase = IF pl.runs = 0 THEN "none" ELSE pl.phase]
    /\ UNCHANGED <<execVars, acq, shorts, flt, store, chain, run>>

\* resolve_playlist_id with an empty query (l.600-602) returns None.
PlResolveEmpty ==
    /\ pl.phase = "resolve"
    /\ pl.world.shape = "empty"
    /\ pl' = Unresolved(pl)
    /\ UNCHANGED <<QUOTA_EXHAUSTED, execVars, acq, shorts, flt, store, chain, run>>

\* resolve_playlist_id with a query that looks like an id (l.603-607): one
\* playlists.list call; with no response the query is returned as id and
\* title; with a response, items[0] is read, which raises IndexError when
\* the list is empty.
PlResolveById(out) ==
    /\ pl.phase = "resolve"
    /\ pl.world.shape = "id"
    /\ out \in ExecutorResults(QUOTA_EXHAUSTED)
    /\ QUOTA_EXHAUSTED' = out.latch
    /\ pl' = IF out.res = "raised" THEN Crash(Noted(pl, out))
             ELSE IF out.res = "null"
             THEN [Noted(pl, out) EXCEPT !.phase = "title"]
             ELSE IF pl.world.at = "id"
             THEN [Noted(pl, out) EXCEPT !.phase = "title"]
             ELSE Crash(Noted(pl, out))
    /\ UNCHANGED <<execVars, acq, shorts, flt, store, chain, run>>

\* One iteration of the loop over the user's own playlists (l.609-620): no
\* response breaks the loop; a title that matches is returned; else the
\* next page, or the end of the loop.
PlResolveMine(out) ==
    /\ pl.phase = "resolve"
    /\ pl.world.shape = "title"
    /\ out \in ExecutorResults(QUOTA_EXHAUSTED)
    /\ QUOTA_EXHAUSTED' = out.latch
    /\ LET pages == IF pl.world.at = "mine" THEN pl.world.page ELSE 1
       IN  pl' = IF out.res = "raised" THEN Crash(Noted(pl, out))
                 ELSE IF out.res = "null"
                 THEN [Noted(pl, out) EXCEPT !.phase = "search"]
                 ELSE IF pl.world.at = "mine" /\ pl.world.page = pl.page
                 THEN [Noted(pl, out) EXCEPT !.phase = "title"]
                 ELSE IF pl.page < pages
                 THEN [Noted(pl, out) EXCEPT !.page = @ + 1]
                 ELSE [Noted(pl, out) EXCEPT !.phase = "search"]
    /\ UNCHANGED <<execVars, acq, shorts, flt, store, chain, run>>

\* The search for a public playlist (l.621-636): an exact title is returned,
\* anything else gives None.
PlResolveSearch(out) ==
    /\ pl.phase = "search"
    /\ out \in ExecutorResults(QUOTA_EXHAUSTED)
    /\ QUOTA_EXHAUSTED' = out.latch
    /\ pl' = IF out.res = "raised" THEN Crash(Noted(pl, out))
             ELSE IF out.res = "response" /\ pl.world.at = "public"
             THEN [Noted(pl, out) EXCEPT !.phase = "title"]
             ELSE Unresolved(Noted(pl, out))
    /\ UNCHANGED <<execVars, acq, shorts, flt, store, chain, run>>

\* list_videos_from_playlist_id, the playlists.list call for the title
\* (l.562-568): no response returns no videos; items[0] of an empty list
\* raises IndexError.
PlGetTitle(out) ==
    /\ pl.phase = "title"
    /\ out \in ExecutorResults(QUOTA_EXHAUSTED)
    /\ QUOTA_EXHAUSTED' = out.latch
    /\ pl' = IF out.res = "raised" THEN Crash(Noted(pl, out))
             ELSE IF out.res = "null"
             THEN [Noted(pl, out) EXCEPT !.phase = "listed", !.listed = 0]
             ELSE IF Exists(pl.world)
             THEN [Noted(pl, out) EXCEPT !.phase = "items"]
             ELSE Crash(Noted(pl, out))
    /\ UNCHANGED <<execVars, acq, shorts, flt, store, chain, run>>

\* list_videos_from_playlist_id, the playlistItems.list call (l.573-593):
\* one call with maxResults = 50 and no age limit; the videos of its
\* response are returned, none when there is no response.
PlListItems(out) ==
    /\ pl.phase = "items"
    /\ out \in ExecutorResults(QUOTA_EXHAUSTED)
    /\ QUOTA_EXHAUSTED' = out.latch
    /\ pl' = IF out.res = "raised" THEN Crash(Noted(pl, out))
             ELSE IF out.res = "null"
             THEN [Noted(pl, out) EXCEPT !.phase = "listed", !.listed = 0]
             ELSE [Noted(pl, out) EXCEPT !.phase = "listed",
                                         !.listed = Min2(pl.size, PageSize),
                                         !.got_items = TRUE]
    /\ UNCHANGED <<execVars, acq, shorts, flt, store, chain, run>>

\* mark_playlist_existing.py, l.60-76: every listed video not in
\* processed_ids is added and stamped, then save_state.
PlMark ==
    /\ pl.phase = "listed"
    /\ pl.prog = "marker"
    /\ LET new == (1..pl.listed) \ pl.processed_ids
           ids == pl.processed_ids \cup new
           stamps == [vid \in (DOMAIN pl.processed_timestamps) \cup new |->
                         IF vid \in new THEN pl.now ELSE pl.processed_timestamps[vid]]
       IN  pl' = [pl EXCEPT !.phase = "done",
                            !.processed_ids = ids,
                            !.processed_timestamps = stamps,
                            !.saved = TRUE,
                            !.file = save_state(ids, pl.video_errors, "map",
                                                stamps, pl.now)]
    /\ UNCHANGED <<QUOTA_EXHAUSTED, execVars, acq, shorts, flt, store, chain, run>>

\* main, l.1065-1097: the listed videos not processed and without an error
\* are the survivors; with none the state is saved and the run ends, else
\* the processing loop follows.
PlFilter ==
    /\ pl.phase = "listed"
    /\ pl.prog = "summarizer"
    /\ LET survivors == {vid \in 1..pl.listed :
                            ~IsSeen(vid, pl.processed_ids, DOMAIN pl.video_errors, {})}
       IN  pl' = IF survivors = {}
                 THEN [pl EXCEPT !.phase = "done", !.saved = TRUE,
                                 !.file = save_state(pl.processed_ids,
                                                     pl.video_errors, "map",
                                                     pl.processed_timestamps,
                                                     pl.now)]
                 ELSE [pl EXCEPT !.phase = "loop", !.survivors = survivors]
    /\ UNCHANGED <<QUOTA_EXHAUSTED, execVars, acq, shorts, flt, store, chain, run>>

NextPlaylist ==
    \/ \E prog \in Programs : PlStart(prog)
    \/ PlResolveEmpty
    \/ \E out \in ExecutorResults(QUOTA_EXHAUSTED) : PlResolveById(out)
    \/ \E out \in ExecutorResults(QUOTA_EXHAUSTED) : PlResolveMine(out)
    \/ \E out \in ExecutorResults(QUOTA_EXHAUSTED) : PlResolveSearch(out)
    \/ \E out \in ExecutorResults(QUOTA_EXHAUSTED) : PlGetTitle(out)
    \/ \E out \in ExecutorResults(QUOTA_EXHAUSTED) : PlListItems(out)
    \/ PlMark
    \/ PlFilter

SpecPlaylist == InitPlaylist /\ [][NextPlaylist]_vars

\* ---------------------------------------------------------------- claims

\* C34: when the query of --playlist names no existing playlist, main ends
\* with a nonzero exit code before the filter, with save_state not called
\* and the state file as it was, for a title and for an id alike.
C34_UnresolvableExitsNonzero ==
    (/\ pl.prog = "summarizer"
     /\ pl.runs > 0
     /\ ~Exists(pl.world)
     /\ pl.phase \notin {"resolve", "search"})
        => /\ pl.phase \in {"exited", "crashed"}
           /\ pl.exit_code # 0
           /\ ~pl.saved
           /\ pl.file = pl.start_file

\* The part of C34 that holds: a title (or an empty query) that names no
\* playlist ends main with a nonzero exit code before the filter and with
\* the state file as it was; and so does an id that names none when the
\* lookup call gets a response (IndexError, exit code 1).
C34_TitleQueryExitsNonzero ==
    (/\ pl.prog = "summarizer"
     /\ pl.runs > 0
     /\ ~Exists(pl.world)
     /\ pl.phase \notin {"resolve", "search"}
     /\ pl.world.shape = "id" => pl.phase \notin {"title", "listed", "done", "loop"})
        => /\ pl.phase \in {"exited", "crashed"}
           /\ pl.exit_code # 0
           /\ ~pl.saved
           /\ pl.file = pl.start_file

\* C35: when mark_playlist_existing.py has finished, every video of the
\* playlist is in the state file, the ids load_state returned have the
\* timestamp they had, the error map is the loaded one, and a run of main
\* on the playlist right after has no survivor.
C35_AllVideosMarked ==
    /\ (pl.prog = "marker" /\ pl.phase = "done")
         => /\ \A vid \in 1..pl.size : vid \in DOMAIN pl.file.processed_timestamps
            /\ \A vid \in pl.loaded_ids :
                 pl.file.processed_timestamps[vid]
                     = pl.start_file.processed_timestamps[vid]
            /\ pl.file.video_errors = pl.video_errors
    /\ (/\ pl.prog = "summarizer"
        /\ pl.prev_prog = "marker"
        /\ pl.prev_phase = "done") => pl.phase # "loop"

\* The part of C35 that holds: when the listing call got its response, the
\* videos of the first page are in the state file, the ids load_state
\* returned have the timestamp they had and the error map is the loaded
\* one.
C35_FirstPageMarked ==
    (pl.prog = "marker" /\ pl.phase = "done")
        => /\ pl.got_items
             => \A vid \in 1..Min2(pl.size, 50) :
                  vid \in DOMAIN pl.file.processed_timestamps
           /\ \A vid \in pl.loaded_ids :
                pl.file.processed_timestamps[vid]
                    = pl.start_file.processed_timestamps[vid]
           /\ pl.file.video_errors = pl.video_errors

\* C39: in playlist mode, when no call failed for another reason than the
\* quota and the query names an existing playlist, main does not end with a
\* nonzero exit code.
C39_QuotaAloneNeverFails ==
    (/\ pl.prog = "summarizer"
     /\ pl.runs > 0
     /\ Exists(pl.world)
     /\ ~pl.other_failure)
        => /\ pl.phase \notin {"exited", "crashed"}
           /\ pl.exit_code = 0

\* The part of C39 that holds in playlist mode: with a query that looks
\* like an id, quota answers alone never end main with a nonzero exit code.
C39_QuotaOnIdLookupGoesOn ==
    (/\ pl.prog = "summarizer"
     /\ pl.runs > 0
     /\ pl.world.at = "id"
     /\ ~pl.other_failure)
        => /\ pl.phase \notin {"exited", "crashed"}
           /\ pl.exit_code = 0

====
